---- MODULE Spec2Model ----
(***************************************************************************)
(* Model of the viewer session protocol layer of panopti                   *)
(* (src/panopti/viewer.py): the ViewerClient session with its registries,  *)
(* inbound handlers, request/response correlator and remote console.       *)
(*                                                                         *)
(* Threads: application threads call the public API (add_mesh, camera,     *)
(* emit_state_request, ...); transport workers deliver inbound messages to *)
(* the handlers registered in ViewerClient.__init__.  A handler or call    *)
(* is split into steps wherever it reads or writes shared state, so that   *)
(* the interleavings of concurrently delivered handlers are explored.      *)
(***************************************************************************)
EXTENDS Integers, Sequences, FiniteSets, TLC

\* ------------------------------------------------------------------ bounds
MaxRouted == 3       \* registration calls plus routed inbound messages in one behaviour
MaxConsole == 3      \* console messages delivered in one behaviour
MaxPull == 3         \* pull calls plus state responses in one behaviour
MaxSession == 2
MaxReRegister == 4
MaxCount == 12      \* operations of any kind in one behaviour of SpecSession

\* --------------------------------------------------------------- identities
SelfId == "viewer_self"
OtherId == "viewer_other"
Absent == "absent"                  \* data.get('viewer_id') is None
ViewerIds == {SelfId, OtherId, Absent}

\* Threads are interchangeable; each pool is listed in the order its threads are used.
AppPool == <<"app1", "app2">>
WorkerPool == <<"w1", "w2">>
AppThreads == {AppPool[i] : i \in 1..Len(AppPool)}
Workers == {WorkerPool[i] : i \in 1..Len(WorkerPool)}
Threads == AppThreads \cup Workers
NoThread == "nobody"

\* ------------------------------------------------------------------- values
\* Every value that travels through a request slot or is returned by a call
\* is a record [v, form]: form tells what kind of value it is.
None == [v |-> 0, form |-> "none"]
ValueError == [v |-> 0, form |-> "ValueError"]
UnboundLocalError == [v |-> 0, form |-> "UnboundLocalError"]
NoReturn == [v |-> 0, form |-> "pending"]
EmptyString == [v |-> 0, form |-> "str"]     \* '' : a falsy, non-None payload
EventData == {[v |-> 1, form |-> "list"]}    \* payload of an events.* / ui event message

_request_events == <<"camera_info", "selected_object", "screenshot">>
Kinds == {_request_events[i] : i \in 1..Len(_request_events)}
NoKind == "-"

VARIABLES
    objects,                     \* BaseViewer.objects (insertion-ordered dict)
    ui_controls,                 \* BaseViewer.ui_controls (insertion-ordered dict)
    interactive_console_enabled, \* ViewerClient.interactive_console_enabled
    warning_emitted,             \* ViewerClient._console_disabled_warning_emitted
    print_buffer,                \* BaseViewer._print_buffer (text appended so far)
    capture_prints_enabled,      \* BaseViewer._capture_prints_enabled
    mirrored,                    \* streams print_capture has replaced by its mirror
    console_scope,               \* _console_scope_globals/_locals and the namespaces
    console_exec_lock,           \* ViewerClient._console_exec_lock: its holder
    request_threads,             \* ViewerClient._request_threads: kind -> Event flag
    request_data,                \* ViewerClient._request_data: kind -> slot
    outbox,                      \* messages emitted on the transport, in order
    triggered,                   \* events triggered on the EventDispatcher, in order
    alive,                       \* FALSE once restart() has replaced the process
    th,                          \* per thread: position and locals of its call
    hist                         \* history (observation only, never read by the code)

vars == <<objects, ui_controls, interactive_console_enabled, warning_emitted,
          print_buffer, capture_prints_enabled, mirrored, console_scope, console_exec_lock,
          request_threads, request_data, outbox, triggered, alive, th, hist>>

\* What a viewer_id mismatch must leave alone (everything the session owns).
sessionState == <<objects, ui_controls, interactive_console_enabled, warning_emitted,
                  print_buffer, capture_prints_enabled, mirrored, console_scope,
                  console_exec_lock, request_threads, request_data, alive>>

\* ----------------------------------------------------------------- helpers
Range(f) == {f[x] : x \in DOMAIN f}

\* Python dict with insertion order: a sequence of entries with distinct names.
DictHas(d, n) == \E i \in 1..Len(d) : d[i].name = n
DictIndex(d, n) == CHOOSE i \in 1..Len(d) : d[i].name = n
DictGet(d, n) == d[DictIndex(d, n)]
\* d[name] = e : replaces in place when the key exists, appends otherwise.
DictPutAppend(d, e) == Append(d, e)
DictPutMoveToEnd(d, e) ==
    LET kept == {i \in 1..Len(d) : d[i].name # e.name}
        nth(k) == CHOOSE i \in kept : Cardinality({j \in kept : j < i}) = k - 1
    IN Append([k \in 1..Cardinality(kept) |-> d[nth(k)]], e)
DictPut(d, e) ==
    IF DictHas(d, e.name) THEN [d EXCEPT ![DictIndex(d, e.name)] = e]
    ELSE Append(d, e)

\* One message on the transport (socket_manager.emit / emit_add_* / emit_console_output).
Msg(event, key, rev, segs) == [event |-> event, key |-> key, rev |-> rev, segs |-> segs]
Segment(text, color) == [text |-> text, color |-> color]
NoColor == "default"
CountEvent(event) == Cardinality({i \in 1..Len(outbox) : outbox[i].event = event})

\* utils.parse.as_array: list-valued data becomes arrays, the rest is kept.
as_array(x) == IF x.form = "list" THEN [x EXCEPT !.form = "array"] ELSE x
\* utils.parse.as_list: the inverse direction, applied to outbound payloads.
as_list(x) == IF x.form = "array" THEN [x EXCEPT !.form = "list"] ELSE x

\* ------------------------------------------------------------ thread frames
NoFile == "nofile"
IdleFrame == [pc |-> "idle", op |-> "none", kind |-> NoKind, arg |-> None,
              cmd |-> "", fname |-> NoFile, ret |-> NoReturn, fresh |-> FALSE,
              capture |-> FALSE, stdout |-> <<>>, stderr |-> <<>>]

At(t, p) == alive /\ th[t].pc = p
\* A new call or message is taken by the first free thread of its pool.
FirstFree(t, pool) ==
    \E i \in 1..Len(pool) : /\ pool[i] = t
                             /\ At(t, "idle")
                             /\ \A j \in 1..(i - 1) : th[pool[j]].pc # "idle"
Goto(t, p) == [th EXCEPT ![t].pc = p]
\* The handler or call of thread t returns nothing of interest: the thread is free.
Finish(t) == [th EXCEPT ![t] = IdleFrame]
\* The call of thread t returns r (or raises r): the result is in the caller's hands.
Return(t, r) ==
    [th EXCEPT ![t] = [IdleFrame EXCEPT !.pc = "done", !.op = th[t].op,
                                        !.kind = th[t].kind, !.fname = th[t].fname,
                                        !.ret = r]]

\* ----------------------------------------------------------------- console
\* The namespaces a console scope can refer to: "main" is sys.modules['__main__'].__dict__,
\* "user" a mapping handed to set_console_scope.  x = 0 means the name x is unbound.
NoScope == "none"
Namespaces == {"main", "user"}
InitNamespaces == [n \in Namespaces |-> [builtins |-> (n = "main"), x |-> 0]]

WarningText == "[Panopti] Interactive console is disabled for this viewer. Reconnect with panopti.connect(..., interactive_console=True) to enable Python execution.\n"

Init ==
    /\ objects = <<>>
    /\ ui_controls = <<>>
    /\ interactive_console_enabled \in BOOLEAN
    /\ warning_emitted = FALSE
    /\ print_buffer = <<>>
    /\ capture_prints_enabled = FALSE
    /\ mirrored = {}
    /\ console_scope = [globals |-> NoScope, locals |-> NoScope, ns |-> InitNamespaces]
    /\ console_exec_lock = NoThread
    /\ request_threads = [k \in Kinds |-> FALSE]
    /\ request_data = [k \in Kinds |-> None]
    /\ outbox = <<>>
    /\ triggered = <<>>
    /\ alive = TRUE
    /\ th = [t \in Threads |-> IdleFrame]
    /\ hist = [inbound |-> 0, calls |-> 0, adds |-> 0, dropped |-> 0, execs |-> 0,
               warnings |-> 0, heartbeats |-> 0, printed |-> 0,
               resyncs |-> 0, foreign_resyncs |-> 0, completes |-> 0,
               responses |-> [k \in Kinds |-> 0], waiting |-> [k \in Kinds |-> 0],
               emits |-> [k \in Kinds |-> 0],
               addressed |-> 0]

\* ---------------------------------------------------------------- registry
Names == {"a", "b"}
NoName == "noname"                   \* name=None : a name is synthesized
\* f"mesh_{uuid.uuid4().hex[:8]}" : a name no earlier registration has used.
FreshNames == <<"mesh_01", "mesh_02", "mesh_03", "mesh_04", "mesh_05", "mesh_06">>
GenName(kind) == FreshNames[hist.adds + 1]
ObjectFields == {"name", "visible", "position", "material"}
NoMaterial == [type |-> "none", form |-> "object"]
Origin == [v |-> 0, form |-> "array"]

\* socket_manager.emit_add_geometry / emit_add_control: one message for the entity,
\* sent without waiting for anything.
emit_nothing(event, entity) == <<>>
emit_add(event, entity) == <<Msg(event, entity.name, entity.rev, <<>>)>>

\* BaseViewer.add_mesh: build the entity, store it under its name, emit the add.
add_mesh_within(t, name, budget) ==
    /\ FirstFree(t, AppPool) /\ hist.adds + hist.inbound < budget
    /\ LET n == IF name = NoName THEN GenName("mesh") ELSE name
           mesh == [name |-> n, visible |-> TRUE, position |-> Origin,
                    material |-> NoMaterial, rev |-> hist.adds + 1]
       IN /\ objects' = DictPut(objects, mesh)
          /\ outbox' = outbox \o emit_add("add_geometry", mesh)
    /\ hist' = [hist EXCEPT !.adds = @ + 1]
    /\ UNCHANGED th
    /\ UNCHANGED <<ui_controls, interactive_console_enabled, warning_emitted, print_buffer,
                   capture_prints_enabled, mirrored, console_scope, console_exec_lock,
                   request_threads, request_data, triggered, alive>>
add_mesh(t, name) == add_mesh_within(t, name, MaxRouted)

\* BaseViewer._add_control: build the control, store it under its name, emit the add.
_add_control_within(t, name, budget) ==
    /\ FirstFree(t, AppPool) /\ hist.adds + hist.inbound < budget
    /\ LET control == [name |-> name, value |-> None, calls |-> 0, rev |-> hist.adds + 1]
       IN /\ ui_controls' = DictPut(ui_controls, control)
          /\ outbox' = outbox \o emit_add("add_control", control)
    /\ hist' = [hist EXCEPT !.adds = @ + 1]
    /\ UNCHANGED th
    /\ UNCHANGED <<objects, interactive_console_enabled, warning_emitted, print_buffer,
                   capture_prints_enabled, mirrored, console_scope, console_exec_lock,
                   request_threads, request_data, triggered, alive>>
_add_control(t, name) == _add_control_within(t, name, MaxRouted)

\* BaseViewer.add_plotly: the plot is stored and announced as a control.
add_plotly(t, name) ==
    /\ FirstFree(t, AppPool) /\ hist.adds + hist.inbound < MaxRouted
    /\ LET plot == [name |-> name, value |-> None, calls |-> 0, rev |-> hist.adds + 1]
       IN /\ ui_controls' = DictPut(ui_controls, plot)
          /\ outbox' = outbox \o emit_add("add_control", plot)
    /\ hist' = [hist EXCEPT !.adds = @ + 1]
    /\ UNCHANGED th
    /\ UNCHANGED <<objects, interactive_console_enabled, warning_emitted, print_buffer,
                   capture_prints_enabled, mirrored, console_scope, console_exec_lock,
                   request_threads, request_data, triggered, alive>>

\* BaseViewer.get: self.objects.get(name) or self.ui_controls.get(name)
NotFound == [name |-> "", rev |-> 0]
get_controls_first(name) ==
    IF DictHas(ui_controls, name) THEN DictGet(ui_controls, name)
    ELSE IF DictHas(objects, name) THEN DictGet(objects, name)
    ELSE NotFound
get(name) ==
    IF DictHas(objects, name) THEN DictGet(objects, name)
    ELSE IF DictHas(ui_controls, name) THEN DictGet(ui_controls, name)
    ELSE NotFound

\* ----------------------------------------------------------------- routing
\* `if data.get('viewer_id') != self.viewer_id: return` : the guard of a handler.
IdMatchesAbsent(vid) == vid \in {SelfId, Absent}
IdMatches(vid) == vid = SelfId

\* A transport worker is free to take the next inbound message.
Receives(w) == FirstFree(w, WorkerPool)
Routed == hist.adds + hist.inbound < MaxRouted

\* History: one more inbound message was delivered, to handler `op`, tagged `vid`.
Delivery(op, vid) == [hist EXCEPT !.inbound = @ + 1]

\* The handler returned at its viewer_id guard: nothing else happens.
Drop(w, op, vid) ==
    /\ hist' = [Delivery(op, vid) EXCEPT !.dropped = @ + 1]
    /\ UNCHANGED th
    /\ UNCHANGED <<sessionState, outbox, triggered>>

Event(name, key, val) == [event |-> name, key |-> key, val |-> val]

\* The reply to a heartbeat ...
HeartbeatReplyTwice == <<Msg("client_heartbeat", SelfId, 0, <<>>), Msg("client_heartbeat", SelfId, 0, <<>>)>>
HeartbeatReply == <<Msg("client_heartbeat", SelfId, 0, <<>>)>>

\* ViewerClient.handle_heartbeat
handle_heartbeat(w, vid) ==
    /\ Receives(w) /\ Routed
    /\ IF ~IdMatches(vid) THEN Drop(w, "handle_heartbeat", vid)
       ELSE /\ outbox' = outbox \o HeartbeatReply
            /\ UNCHANGED th
            /\ hist' = [Delivery("handle_heartbeat", vid) EXCEPT !.heartbeats = @ + 1]
            /\ UNCHANGED <<sessionState, triggered>>

\* controls: control.handle_event(value) stores the value and runs the callback.
handle_event(control, value) == [control EXCEPT !.value = value, !.calls = @ + 1]

\* BaseViewer.handle_ui_event: the control's state after the event, if it exists.
handle_ui_event(control_id, value) ==
    IF ~DictHas(ui_controls, control_id) THEN ui_controls
    ELSE DictPut(ui_controls, handle_event(DictGet(ui_controls, control_id), value))

\* What handle_ui_event_from_server runs, in order: the control's callback when the
\* control exists (the early return of handle_ui_event ends that call only), then the
\* subscribers of `control`.
ui_event_runs_if_control(control_id, value) ==
    IF DictHas(ui_controls, control_id)
    THEN <<Event("callback", control_id, value), Event("control", control_id, value)>>
    ELSE <<>>
ui_event_runs(control_id, value) ==
    (IF DictHas(ui_controls, control_id) THEN <<Event("callback", control_id, value)>>
     ELSE <<>>)
    \o <<Event("control", control_id, value)>>

\* ViewerClient.handle_ui_event_from_server
handle_ui_event_from_server(w, vid, control_id, value) ==
    /\ Receives(w) /\ Routed
    /\ IF ~IdMatches(vid) THEN Drop(w, "handle_ui_event_from_server", vid)
       ELSE /\ ui_controls' = handle_ui_event(control_id, as_array(value))
            /\ triggered' = triggered \o ui_event_runs(control_id, as_array(value))
            /\ UNCHANGED th
            /\ hist' = Delivery("handle_ui_event_from_server", vid)
            /\ UNCHANGED <<objects, interactive_console_enabled, warning_emitted,
                           print_buffer, capture_prints_enabled, mirrored, console_scope,
                           console_exec_lock, request_threads, request_data, outbox, alive>>

\* The `updates` maps a frontend sends with update_object, as key/value pairs in order.
UpdateIds == 1..4
UpdatesOf(i) ==
    CASE i = 1 -> << <<"visible", FALSE>> >>
      [] i = 2 -> << <<"material", [type |-> "standard", form |-> "dict"]>>,
                     <<"position", [v |-> 1, form |-> "list"]>> >>
      [] i = 3 -> << <<"material", [type |-> "unknown", form |-> "dict"]>>,
                     <<"visible", FALSE>> >>
      [] OTHER -> << <<"nofield", TRUE>> >>
\* as_array(updates): list values (here: the position) become arrays.
as_array_updates(u) ==
    [i \in DOMAIN u |-> IF u[i][1] = "position" THEN <<u[i][1], as_array(u[i][2])>> ELSE u[i]]

\* materials.utils.create_material_from_dict: decodes a dict with a known type tag.
MaterialTypes == {"standard"}
CanDecodeMaterial(value) == value.type \in MaterialTypes
create_material_from_dict(value) == [value EXCEPT !.form = "object"]

\* One iteration of the loop over updates.items() in handle_update_object.
SetFieldAlways(obj, key, value) == [f \in DOMAIN obj \cup {key} |-> IF f = key THEN value ELSE obj[f]]
SetField(obj, key, value) ==
    IF key \notin ObjectFields THEN obj                          \* not hasattr(obj, key)
    ELSE IF key = "material" /\ value.form = "dict"
         THEN IF CanDecodeMaterial(value)
              THEN [obj EXCEPT !.material = create_material_from_dict(value)]
              ELSE [obj EXCEPT !.material = value]               \* except: keep the raw dict
         ELSE [obj EXCEPT ![key] = value]

\* The loop, had it let the decode failure out: the keys after it are not applied.
RECURSIVE ApplyUpdatesAborting(_, _)
ApplyUpdatesAborting(obj, u) ==
    IF u = <<>> THEN obj
    ELSE IF Head(u)[1] = "material" /\ Head(u)[2].form = "dict" /\ ~CanDecodeMaterial(Head(u)[2])
    THEN obj
    ELSE ApplyUpdatesAborting(SetField(obj, Head(u)[1], Head(u)[2]), Tail(u))

RECURSIVE ApplyUpdates(_, _)
ApplyUpdates(obj, u) ==
    IF u = <<>> THEN obj
    ELSE ApplyUpdates(SetField(obj, Head(u)[1], Head(u)[2]), Tail(u))

\* Number of "Warning: Could not recreate material" lines the loop prints.
MaterialWarnings(obj, u) ==
    Cardinality({i \in DOMAIN u : /\ u[i][1] = "material"
                                  /\ "material" \in ObjectFields
                                  /\ u[i][2].form = "dict"
                                  /\ ~CanDecodeMaterial(u[i][2])})

\* ViewerClient.handle_update_object
handle_update_object(w, vid, obj_id, uid) ==
    /\ Receives(w) /\ Routed
    /\ IF ~IdMatches(vid) THEN Drop(w, "handle_update_object", vid)
       ELSE IF ~DictHas(objects, obj_id)
       THEN /\ UNCHANGED th
            /\ hist' = Delivery("handle_update_object", vid)
            /\ UNCHANGED <<sessionState, outbox, triggered>>
       ELSE LET updates == as_array_updates(UpdatesOf(uid))
                obj == DictGet(objects, obj_id)
            IN /\ objects' = [objects EXCEPT ![DictIndex(objects, obj_id)] =
                                                 ApplyUpdates(obj, updates)]
               /\ triggered' = Append(triggered, Event("update_object", obj_id,
                                                       [v |-> uid, form |-> "updates"]))
               /\ UNCHANGED th
               /\ hist' = [Delivery("handle_update_object", vid) EXCEPT
                                       !.printed = @ + MaterialWarnings(obj, updates)]
               /\ UNCHANGED <<ui_controls, interactive_console_enabled, warning_emitted,
                              print_buffer, capture_prints_enabled, mirrored, console_scope,
                              console_exec_lock, request_threads, request_data, outbox,
                              alive>>

\* ViewerClient.handle_restart_script: restart() replaces the process (os.execv).
handle_restart_script(w, vid) ==
    /\ Receives(w) /\ Routed
    /\ IF ~IdMatches(vid) THEN Drop(w, "handle_restart_script", vid)
       ELSE /\ alive' = FALSE
            /\ UNCHANGED th
            /\ hist' = Delivery("handle_restart_script", vid)
            /\ UNCHANGED <<objects, ui_controls, interactive_console_enabled,
                           warning_emitted, print_buffer, capture_prints_enabled, mirrored,
                           console_scope, console_exec_lock, request_threads,
                           request_data, outbox, triggered>>

\* The body shared by the four events.* handlers: convert the payload, trigger the event.
TriggerEvent(w, vid, op, name, payload) ==
    /\ Receives(w) /\ Routed
    /\ IF ~IdMatches(vid) THEN Drop(w, op, vid)
       ELSE /\ triggered' = Append(triggered, Event(name, "", payload))
            /\ UNCHANGED th
            /\ hist' = Delivery(op, vid)
            /\ UNCHANGED <<sessionState, outbox>>

\* ViewerClient.handle_events_camera
handle_events_camera(w, vid, data) ==
    TriggerEvent(w, vid, "handle_events_camera", "camera", as_array(data))
\* ViewerClient.handle_events_inspect
handle_events_inspect(w, vid, data) ==
    TriggerEvent(w, vid, "handle_events_inspect", "inspect", as_array(data))
\* ViewerClient.handle_events_select_object (no conversion of the payload)
handle_events_select_object(w, vid, data) ==
    TriggerEvent(w, vid, "handle_events_select_object", "select_object", data)
\* ViewerClient.handle_events_gizmo
handle_events_gizmo(w, vid, data) ==
    TriggerEvent(w, vid, "handle_events_gizmo", "gizmo", as_array(data))

\* print_capture.split_text_to_segments: the retained text as uncoloured segments.
split_text_to_segments(text) == [i \in DOMAIN text |-> Segment(text[i], NoColor)]

\* DEFAULT_CAMERA_STATE, lines 30-35 (near = 0.1 is written as the fraction 1/10).
DEFAULT_CAMERA_STATE ==
    [projection_mode |-> "perspective", fov |-> 50, near |-> <<1, 10>>, far |-> 1000]
ConsoleMeta == Msg("console_meta", IF interactive_console_enabled THEN "enabled" ELSE "disabled",
                   0, <<>>)

\* handle_request_state with the two registries replayed in the other order.
ResyncControlsFirst ==
    <<ConsoleMeta, Msg("set_camera", "camera", 0, <<DEFAULT_CAMERA_STATE>>)>>
    \o [i \in 1..Len(ui_controls) |->
            Msg("add_control", ui_controls[i].name, ui_controls[i].rev, <<>>)]
    \o [i \in 1..Len(objects) |-> Msg("add_geometry", objects[i].name, objects[i].rev, <<>>)]
    \o (IF print_buffer = <<>> THEN <<>>
        ELSE <<Msg("console_output", "", 0, split_text_to_segments(print_buffer))>>)
\* What handle_request_state emits, in order.
ResyncMessages ==
    <<ConsoleMeta, Msg("set_camera", "camera", 0, <<DEFAULT_CAMERA_STATE>>)>>
    \o [i \in 1..Len(objects) |-> Msg("add_geometry", objects[i].name, objects[i].rev, <<>>)]
    \o [i \in 1..Len(ui_controls) |->
            Msg("add_control", ui_controls[i].name, ui_controls[i].rev, <<>>)]
    \o (IF print_buffer = <<>> THEN <<>>
        ELSE <<Msg("console_output", "", 0, split_text_to_segments(print_buffer))>>)

\* self._print_buffer.getvalue() (line 703) reads the retained text and leaves it in
\* place; a read that consumed the buffer would replay it once only.
after_read_and_truncate(buffer) == <<>>
after_getvalue(buffer) == buffer

\* ViewerClient.handle_request_state: the handler has no viewer_id guard.
handle_request_state_within(w, vid, budget) ==
    /\ Receives(w) /\ hist.adds + hist.inbound < budget
    /\ outbox' = outbox \o ResyncMessages
    /\ print_buffer' = after_getvalue(print_buffer)
    /\ UNCHANGED th
    /\ hist' = [Delivery("handle_request_state", vid) EXCEPT !.resyncs = @ + 1,
                            !.foreign_resyncs = @ + (IF vid = SelfId THEN 0 ELSE 1)]
    /\ UNCHANGED <<objects, ui_controls, interactive_console_enabled, warning_emitted,
                   capture_prints_enabled, mirrored, console_scope, console_exec_lock,
                   request_threads, request_data, alive, triggered>>
handle_request_state(w, vid) == handle_request_state_within(w, vid, MaxRouted)

\* ----------------------------------------------------------------- console
\* The console inputs of the model: an empty command, an expression with a value,
\* a statement that binds x, an expression that reads x, an expression that prints.
\* Text, as str does it: characters compare by code point (digits, upper case, '_',
\* lower case), and the methods the console uses.
Digits == "0123456789"
Letters == "ABCDEFGHIJKLMNOPQRSTUVWXYZ_abcdefghijklmnopqrstuvwxyz"
Char(s, i) == SubSeq(s, i, i)
In(ch, chars) == \E i \in 1..Len(chars) : Char(chars, i) = ch
ord(ch) == CHOOSE i \in 1..Len(Digits \o Letters) : Char(Digits \o Letters, i) = ch
startswith_anything(s, prefix) == TRUE
startswith(s, prefix) == Len(prefix) <= Len(s) /\ SubSeq(s, 1, Len(prefix)) = prefix
RECURSIVE rstrip(_)
rstrip(s) == IF s # "" /\ In(Char(s, Len(s)), " \n\t") THEN rstrip(SubSeq(s, 1, Len(s) - 1)) ELSE s
RECURSIVE strip(_)
strip(s) == IF s # "" /\ In(Char(s, 1), " \n\t") THEN strip(SubSeq(s, 2, Len(s))) ELSE rstrip(s)
RECURSIVE str_lt(_, _)
str_lt(a, b) ==
    IF a = "" \/ b = "" THEN b # ""
    ELSE IF Char(a, 1) = Char(b, 1) THEN str_lt(SubSeq(a, 2, Len(a)), SubSeq(b, 2, Len(b)))
    ELSE ord(Char(a, 1)) < ord(Char(b, 1))
RECURSIVE sorted(_)
sorted(names) ==
    IF names = {} THEN <<>>
    ELSE LET first == CHOOSE a \in names : \A b \in names \ {a} : str_lt(a, b)
         IN <<first>> \o sorted(names \ {first})
RECURSIVE join(_, _)
join(sep, strs) ==
    IF strs = <<>> THEN "" ELSE IF Len(strs) = 1 THEN strs[1]
    ELSE strs[1] \o sep \o join(sep, Tail(strs))

Commands == {"", "1+1", "x = 5", "x", "print(1)"}
Prefixes == {"", "pri", "x", "x."}
\* What evaluating a command does, as eval/exec would: its syntactic form (an
\* expression, statements, or neither), the repr of its value ("" for None), the
\* exception it raises ("" for none), what it writes to sys.stdout and sys.stderr, and
\* the value it binds to x (0 for no binding).  The command "x" reads the scope and is
\* completed in ExecRun.
Quiet == [form |-> "expr", value |-> "", raises |-> "", out |-> <<>>, err |-> <<>>, bind |-> 0]
SemEcho(c) == [Quiet EXCEPT !.value = c]
Sem(c) ==
    CASE c = "1+1" -> [Quiet EXCEPT !.value = "2"]
      [] c = "None" -> Quiet
      [] c = "x = 5" -> [Quiet EXCEPT !.form = "stmt", !.bind = 5]
      [] c = "x" -> Quiet
      [] c = "print(1)" -> [Quiet EXCEPT !.out = <<"1\n">>]
      [] c = "print('e', file=sys.stderr)" -> [Quiet EXCEPT !.err = <<"e\n">>]
      [] c = "1 +" -> [Quiet EXCEPT !.form = "invalid", !.raises = "SyntaxError"]
      [] c = "1/0" -> [Quiet EXCEPT !.raises = "ZeroDivisionError"]
      [] c = "exit()" -> [Quiet EXCEPT !.raises = "SystemExit"]
      [] c = "print(1) or 5" -> [Quiet EXCEPT !.out = <<"1\n">>, !.value = "5"]
      [] c = "print(1); 1/0" ->
             [Quiet EXCEPT !.form = "stmt", !.out = <<"1\n">>, !.raises = "ZeroDivisionError"]
      [] c = "print('e', file=sys.stderr) or print(1) or 7" ->
             [Quiet EXCEPT !.err = <<"e\n">>, !.out = <<"1\n">>, !.value = "7"]
      [] OTHER -> Quiet
\* `not command.strip()` after rstrip('\n')
Blank(c) == strip(rstrip(c)) = ""
\* `except BaseException` (line 579) catches every exception there is; `except Exception`
\* would let the exit-style ones through.
CaughtByException(raised) == raised \notin {"SystemExit", "KeyboardInterrupt"}
Caught(raised) == TRUE
\* traceback.format_exc(): the trace ends with the name of the exception.
Traceback(name) == "Traceback (most recent call last): " \o name \o "\n"

\* ViewerClient._emit_console_text: append to the retained buffer, emit the segments.
ConsoleTextBufferReset(buf, text) == IF text = "" THEN buf ELSE <<text>>
ConsoleTextBuffer(buf, text) == IF text = "" THEN buf ELSE Append(buf, text)
ConsoleTextOutbox(out, text, color) ==
    IF text = "" THEN out
    ELSE Append(out, Msg("console_output", "", 0, <<Segment(text, color)>>))

\* BaseViewer._resolve_console_scope: the namespaces used, by reference.
MainOnly == "main"
ResolvedGlobals == IF console_scope.globals = NoScope THEN "main" ELSE console_scope.globals
ResolvedLocals ==
    IF console_scope.globals = NoScope THEN "main"
    ELSE IF console_scope.locals = NoScope THEN console_scope.globals
    ELSE console_scope.locals
\* ... and its side effect: globals_dict['__builtins__'] is set when missing.
ScopeAfterResolve == [console_scope EXCEPT !.ns[ResolvedGlobals].builtins = TRUE]

\* The non-dict and viewer_id guards shared by the two console handlers; a handler
\* that passes them goes on at `enabled_pc`, or to the warning when the console is off.
ConsoleEntry(w, vid, isdict, op, command, enabled_pc) ==
    /\ Receives(w) /\ hist.inbound < MaxConsole
    /\ IF ~isdict
       THEN /\ UNCHANGED th
            /\ hist' = Delivery(op, vid)
            /\ UNCHANGED <<sessionState, outbox, triggered>>
       ELSE IF ~IdMatches(vid) THEN Drop(w, op, vid)
       ELSE /\ th' = [th EXCEPT ![w] = [IdleFrame EXCEPT
                          !.op = op, !.cmd = command,
                          !.pc = IF interactive_console_enabled THEN enabled_pc
                                 ELSE "warn_check"]]
            /\ hist' = [Delivery(op, vid) EXCEPT !.addressed = @ + 1]
            /\ UNCHANGED <<sessionState, outbox, triggered>>

\* ViewerClient.handle_console_command
handle_console_command(w, vid, isdict, command) ==
    ConsoleEntry(w, vid, isdict, "handle_console_command", command, "exec_enter")

\* ViewerClient.handle_console_complete
handle_console_complete(w, vid, isdict, command) ==
    ConsoleEntry(w, vid, isdict, "handle_console_complete", command, "complete_lock")

\* _warn_console_disabled_once, line 547: read the flag.
WarnCheckAlways(w) ==
    /\ At(w, "warn_check")
    /\ th' = Goto(w, "warn_set")
    /\ UNCHANGED <<sessionState, outbox, triggered, hist>>
WarnCheck(w) ==
    /\ At(w, "warn_check")
    /\ th' = IF warning_emitted THEN Finish(w) ELSE Goto(w, "warn_set")
    /\ UNCHANGED <<sessionState, outbox, triggered, hist>>

\* _warn_console_disabled_once, line 549: set the flag.
WarnSet(w) ==
    /\ At(w, "warn_set")
    /\ warning_emitted' = TRUE
    /\ th' = Goto(w, "warn_emit")
    /\ UNCHANGED <<objects, ui_controls, interactive_console_enabled, print_buffer,
                   capture_prints_enabled, mirrored, console_scope, console_exec_lock,
                   request_threads, request_data, alive, outbox, triggered, hist>>

\* _warn_console_disabled_once, lines 550-554: emit the warning text.
WarnEmit(w) ==
    /\ At(w, "warn_emit")
    /\ print_buffer' = ConsoleTextBuffer(print_buffer, WarningText)
    /\ outbox' = ConsoleTextOutbox(outbox, WarningText, "yellow")
    /\ hist' = [hist EXCEPT !.warnings = @ + 1]
    /\ th' = Finish(w)
    /\ UNCHANGED <<objects, ui_controls, interactive_console_enabled, warning_emitted,
                   capture_prints_enabled, mirrored, console_scope, console_exec_lock,
                   request_threads, request_data, alive, triggered>>

\* Name lookup of eval/exec: locals first, then globals (0: the name is unbound).
LookupX == IF console_scope.ns[ResolvedLocals].x # 0 THEN console_scope.ns[ResolvedLocals].x
           ELSE console_scope.ns[ResolvedGlobals].x
\* repr of a bound value
Repr(n) == CASE n = 5 -> "5" [] n = 7 -> "7" [] OTHER -> "?"

\* _execute_console_command, lines 557-566: strip, return on an empty command, resolve
\* the scope and decide whether this call captures stdout/stderr itself.
ExecEnter(w) ==
    /\ At(w, "exec_enter")
    /\ IF Blank(th[w].cmd)
       THEN th' = Finish(w) /\ UNCHANGED console_scope
       ELSE /\ console_scope' = ScopeAfterResolve
            /\ th' = [th EXCEPT ![w].pc = "exec_lock",
                                ![w].capture = ~capture_prints_enabled]
    /\ UNCHANGED <<objects, ui_controls, interactive_console_enabled, warning_emitted,
                   print_buffer, capture_prints_enabled, mirrored, console_exec_lock,
                   request_threads, request_data, alive, outbox, triggered, hist>>

\* `with self._console_exec_lock:` : blocks until the lock is free, then takes it.
AcquireUnguarded(w, from, to) ==
    /\ At(w, from)
    /\ console_exec_lock' = w
    /\ th' = Goto(w, to)
    /\ UNCHANGED <<objects, ui_controls, interactive_console_enabled, warning_emitted,
                   print_buffer, capture_prints_enabled, mirrored, console_scope,
                   request_threads, request_data, alive, outbox, triggered, hist>>
Acquire(w, from, to) ==
    /\ At(w, from)
    /\ console_exec_lock = NoThread
    /\ console_exec_lock' = w
    /\ th' = Goto(w, to)
    /\ UNCHANGED <<objects, ui_controls, interactive_console_enabled, warning_emitted,
                   print_buffer, capture_prints_enabled, mirrored, console_scope,
                   request_threads, request_data, alive, outbox, triggered, hist>>

\* `with self._console_exec_lock:` releases the lock however the block is left; a
\* bare acquire()/release() pair would keep it when an exception leaves the block.
release_on_return(w, raised) == IF raised THEN w ELSE NoThread
release(w, raised) == NoThread

\* The connection can go down while a handler runs: socket_manager.emit raises in that
\* handler from then on (after _emit_console_text has written the buffer, line 537).
Down == [v |-> 0, form |-> "down"]
ConnectionError == [v |-> 0, form |-> "ConnectionError"]
EmitRaises(w) == th[w].arg = Down
transport_drops(w) ==
    /\ alive /\ th[w].pc \in {"exec_lock", "exec_run", "complete_lock", "complete_run"}
    /\ th[w].arg = None
    /\ th' = [th EXCEPT ![w].arg = Down]
    /\ UNCHANGED <<sessionState, outbox, triggered, hist>>

\* _execute_console_command, line 568
ExecAcquire(w) == Acquire(w, "exec_lock", "exec_run")

RECURSIVE EmitAll(_, _, _)
\* _emit_console_text applied to each captured text in turn: <<buffer, outbox>>.
EmitAll(state, texts, color) ==
    IF texts = <<>> THEN state
    ELSE EmitAll(<<ConsoleTextBuffer(state[1], Head(texts)),
                   ConsoleTextOutbox(state[2], Head(texts), color)>>, Tail(texts), color)

\* panopti.utils.print_capture.capture_prints: the streams it mirrors from then on ...
cap(capture_stderr) == mirrored \cup {"stdout"} \cup (IF capture_stderr THEN {"stderr"} ELSE {})
\* ... and what a write to a stream does: a mirrored stream appends the text to the
\* retained buffer and hands its segments to the callback; the text also reaches the
\* process's own terminal, which is not part of the state.
cap_write(state, stream, texts) ==
    IF stream \in mirrored THEN EmitAll(state, texts, NoColor) ELSE state

\* _execute_console_command, lines 569-581: compile as an expression and evaluate it, or
\* fall back to exec for statements; emit the repr of a non-None result, or the
\* traceback of whatever was raised.  Text written to a stream goes to the temporary
\* buffer when this call redirects the streams, else to the stream's mirror when
\* print_capture has installed one (which retains and emits it), else to the terminal.
ExecRun(w) ==
    /\ At(w, "exec_run")
    /\ LET c == th[w].cmd
           sem == Sem(c)
           raises == IF c = "x" /\ LookupX = 0 THEN "NameError" ELSE sem.raises
           value == IF c = "x" /\ LookupX # 0 THEN Repr(LookupX) ELSE sem.value
           direct == <<print_buffer, outbox>>
           mirroredState == IF th[w].capture THEN direct
                            ELSE cap_write(cap_write(direct, "stdout", sem.out),
                                           "stderr", sem.err)
           escapes == raises # "" /\ ~Caught(raises)
           text == IF escapes THEN ""
                   ELSE IF raises # "" THEN Traceback(raises)
                   ELSE IF value # "" THEN value \o "\n" ELSE ""
           color == IF raises # "" THEN "red" ELSE NoColor
           inTry == mirroredState # direct \/ (raises = "" /\ text # "")
           failing == EmitRaises(w) /\ (inTry \/ text # "")
       IN /\ print_buffer' =
                IF ~failing THEN ConsoleTextBuffer(mirroredState[1], text)
                ELSE IF ~inTry THEN ConsoleTextBuffer(print_buffer, text)
                ELSE ConsoleTextBuffer(IF mirroredState # direct THEN mirroredState[1]
                                       ELSE ConsoleTextBuffer(print_buffer, text),
                                       Traceback("ConnectionError"))
          /\ outbox' = IF failing THEN outbox
                       ELSE ConsoleTextOutbox(mirroredState[2], text, color)
          /\ console_scope' = IF sem.bind # 0
                              THEN [console_scope EXCEPT !.ns[ResolvedLocals].x = sem.bind]
                              ELSE console_scope
          /\ th' = [th EXCEPT ![w].pc = "exec_flush",
                              ![w].ret = IF failing THEN ConnectionError
                                          ELSE IF escapes THEN [v |-> 0, form |-> raises]
                                          ELSE NoReturn,
                              ![w].stdout = IF th[w].capture THEN sem.out ELSE <<>>,
                              ![w].stderr = IF th[w].capture THEN sem.err ELSE <<>>]
    /\ hist' = [hist EXCEPT !.execs = @ + 1]
    /\ UNCHANGED <<objects, ui_controls, interactive_console_enabled, warning_emitted,
                   capture_prints_enabled, mirrored, console_exec_lock, request_threads,
                   request_data, alive, triggered>>

\* The `finally` clause, lines 582-589: the captured stdout text, then the captured
\* stderr text in red.
flush_stderr_first(state, stdout_text, stderr_text) ==
    EmitAll(EmitAll(state, stderr_text, "red"), stdout_text, NoColor)
flush_captured(state, stdout_text, stderr_text) ==
    EmitAll(EmitAll(state, stdout_text, NoColor), stderr_text, "red")

\* _execute_console_command, lines 581-589 and the end of the `with` block: flush the
\* captured stdout, then stderr in red, and release the lock; an exception that was not
\* caught leaves the handler here.
ExecFlush(w) ==
    /\ At(w, "exec_flush")
    /\ LET afterErr == IF th[w].capture
                       THEN flush_captured(<<print_buffer, outbox>>, th[w].stdout, th[w].stderr)
                       ELSE <<print_buffer, outbox>>
           captured == th[w].stdout \o th[w].stderr
           attempted == IF ~th[w].capture \/ captured = <<>> THEN <<>>
                        ELSE <<Head(captured)>>
           failing == EmitRaises(w) /\ attempted # <<>>
           raised == IF failing THEN ConnectionError ELSE th[w].ret
       IN /\ print_buffer' = IF failing THEN ConsoleTextBuffer(print_buffer, attempted[1])
                             ELSE afterErr[1]
          /\ outbox' = IF failing THEN outbox ELSE afterErr[2]
          /\ console_exec_lock' = release(w, raised # NoReturn)
          /\ th' = IF raised # NoReturn THEN Return(w, raised) ELSE Finish(w)
    /\ UNCHANGED <<objects, ui_controls, interactive_console_enabled, warning_emitted,
                   capture_prints_enabled, mirrored, console_scope, request_threads,
                   request_data, alive, triggered, hist>>

\* The names the completion draws from: the keys of a namespace, the builtins (a few of
\* them), and dir() of the value an object expression evaluates to.
keys(n) ==
    (IF n = "main" THEN {"__name__"} ELSE {})
        \cup (IF ScopeAfterResolve.ns[n].builtins THEN {"__builtins__"} ELSE {})
        \cup (IF console_scope.ns[n].x # 0 THEN {"x"} ELSE {})
builtins_names == {"abs", "pow", "print", "property"}
dir(target) == IF target = "int" THEN {"__abs__", "__add__", "bit_length", "real"} ELSE {}
\* eval(object_expr, globals_dict, locals_dict): the type of the value, "" when it raises
eval_type(object_expr) == IF object_expr = "x" /\ LookupX # 0 THEN "int" ELSE ""

\* ViewerClient._collect_console_completions: the sorted names, or the exception raised
\* by evaluating the object expression.
_collect_console_completions(command) ==
    LET source == rstrip(command)
        dots == {i \in 1..Len(source) : Char(source, i) = "."}
        cut == CHOOSE i \in dots : \A k \in dots : k <= i
        object_expr == IF dots = {} THEN "" ELSE strip(SubSeq(source, 1, cut - 1))
        matches == {i \in 1..Len(source) :
                      /\ In(Char(source, i), Letters)
                      /\ \A k \in i..Len(source) : In(Char(source, k), Digits \o Letters)}
        prefix == IF object_expr # "" THEN SubSeq(source, cut + 1, Len(source))
                  ELSE SubSeq(source, CHOOSE i \in matches : \A k \in matches : i <= k,
                              Len(source))
        scope_names == keys(ResolvedGlobals) \cup keys(ResolvedLocals) \cup builtins_names
    IN IF source = "" THEN [raises |-> "", names |-> <<>>]
       ELSE IF object_expr # ""
       THEN IF eval_type(object_expr) = "" THEN [raises |-> "NameError", names |-> <<>>]
            ELSE [raises |-> "",
                  names |-> sorted(IF prefix # ""
                                   THEN {n \in dir(eval_type(object_expr)) : startswith(n, prefix)}
                                   ELSE {n \in dir(eval_type(object_expr)) : ~startswith(n, "__")})]
       ELSE IF matches = {} THEN [raises |-> "", names |-> <<>>]
       ELSE [raises |-> "", names |-> sorted({n \in scope_names : startswith(n, prefix)})]
\* ViewerClient._emit_completion_list: the text of the answer.
CompletionText(completions) ==
    IF completions = <<>> THEN "(no completions)\n" ELSE join(", ", completions) \o "\n"

\* handle_console_complete, line 663
CompleteAcquire(w) == Acquire(w, "complete_lock", "complete_run")

\* handle_console_complete, lines 663-668: collect and emit under the lock, release it;
\* an emit that raises does so again in the except clause and leaves the handler.
CompleteRun(w) ==
    /\ At(w, "complete_run")
    /\ LET completions == _collect_console_completions(th[w].cmd)
           text == IF completions.raises # "" THEN Traceback(completions.raises)
                   ELSE CompletionText(completions.names)
           color == IF completions.raises # "" THEN "red"
                    ELSE IF completions.names = <<>> THEN "yellow" ELSE NoColor
       IN /\ print_buffer' =
                IF EmitRaises(w) /\ completions.raises = ""
                THEN ConsoleTextBuffer(ConsoleTextBuffer(print_buffer, text),
                                       Traceback("ConnectionError"))
                ELSE ConsoleTextBuffer(print_buffer, text)
          /\ outbox' = IF EmitRaises(w) THEN outbox ELSE ConsoleTextOutbox(outbox, text, color)
    /\ console_scope' = IF rstrip(th[w].cmd) = "" THEN console_scope ELSE ScopeAfterResolve
    /\ console_exec_lock' = release(w, EmitRaises(w))
    /\ th' = IF EmitRaises(w) THEN Return(w, ConnectionError) ELSE Finish(w)
    /\ hist' = [hist EXCEPT !.completes = @ + 1]
    /\ UNCHANGED <<objects, ui_controls, interactive_console_enabled, warning_emitted,
                   capture_prints_enabled, mirrored, request_threads, request_data, alive, triggered>>

\* ------------------------------------------- application code and the console
\* Calls of application code that concern the console.
AppCall(t) == FirstFree(t, AppPool) /\ hist.calls + hist.inbound < MaxConsole
consoleState == <<interactive_console_enabled, warning_emitted, console_exec_lock>>
otherState == <<objects, ui_controls, request_threads, request_data, alive, triggered, th>>

\* BaseViewer.print_colored: text + end goes out as one coloured segment.
print_colored(t, text, color) ==
    /\ AppCall(t)
    /\ outbox' = Append(outbox, Msg("console_output", "", 0, <<Segment(text \o "\n", color)>>))
    /\ hist' = [hist EXCEPT !.calls = @ + 1]
    /\ UNCHANGED <<print_buffer, capture_prints_enabled, mirrored, console_scope,
                   consoleState, otherState>>

\* BaseViewer.capture_prints
capture_prints(t, capture_stderr) ==
    /\ AppCall(t)
    /\ capture_prints_enabled' = TRUE
    /\ mirrored' = cap(capture_stderr)
    /\ hist' = [hist EXCEPT !.calls = @ + 1]
    /\ UNCHANGED <<print_buffer, outbox, console_scope, consoleState, otherState>>

\* print(text) in application code writes to sys.stdout.
app_print(t, text) ==
    /\ AppCall(t)
    /\ LET written == cap_write(<<print_buffer, outbox>>, "stdout", <<text \o "\n">>)
       IN print_buffer' = written[1] /\ outbox' = written[2]
    /\ hist' = [hist EXCEPT !.calls = @ + 1]
    /\ UNCHANGED <<capture_prints_enabled, mirrored, console_scope, consoleState, otherState>>

\* BaseViewer.set_console_scope (NoScope stands for an argument that is None)
set_console_scope(t, globals_dict, locals_dict) ==
    /\ AppCall(t)
    /\ console_scope' =
          IF globals_dict = NoScope THEN console_scope
          ELSE [console_scope EXCEPT
                   !.globals = globals_dict,
                   !.locals = IF locals_dict # NoScope THEN locals_dict ELSE globals_dict]
    /\ hist' = [hist EXCEPT !.calls = @ + 1]
    /\ UNCHANGED <<print_buffer, outbox, capture_prints_enabled, mirrored, consoleState,
                   otherState>>

\* Application code binds x in one of its namespaces (`x = 7` at top level, or in the
\* mapping it handed to set_console_scope).
bind_x(t, namespace) ==
    /\ AppCall(t)
    /\ console_scope' = [console_scope EXCEPT !.ns[namespace].x = 7]
    /\ hist' = [hist EXCEPT !.calls = @ + 1]
    /\ UNCHANGED <<print_buffer, outbox, capture_prints_enabled, mirrored, consoleState,
                   otherState>>

\* ------------------------------------------------------ request correlator
\* An event name is a sequence of pieces, so that str.replace can be computed on it.
RequestEvent(k) == <<"request_", k>>
EventNames ==
    {RequestEvent(k) : k \in Kinds}
    \cup {<<"camera_info">>, <<"request_", "bogus">>, <<"camera_", "request_", "info">>}

\* event.replace('request_', '') : every occurrence is removed, the rest is joined.
Joined(pieces) ==
    IF Len(pieces) = 1 THEN pieces[1]
    ELSE IF pieces = <<"camera_", "info">> THEN "camera_info"
    ELSE "?"
event_basename(event) == Joined(SelectSeq(event, LAMBDA piece : piece # "request_"))

\* What the frontend answers per kind (None: the message has no 'data').
ResponseDataOf(k) ==
    CASE k = "camera_info" -> {[v |-> 1, form |-> "list"], None}
      [] k = "selected_object" -> {[v |-> 1, form |-> "str"]}
      [] OTHER -> {[v |-> 1, form |-> "b64image"], EmptyString}

\* The request kinds share no state, so one behaviour exercises one kind: a request or
\* answer of kind k is taken only while no other kind has been requested or answered.
Focused(k) ==
    k \in Kinds =>
        \A j \in Kinds \ {k} : /\ hist.emits[j] = 0 /\ hist.responses[j] = 0
                                /\ \A t \in Threads : th[t].kind # j

\* Lines 817 and 832: `event_basename not in self._request_events`.
UnknownKindNever(event) == FALSE
UnknownKind(event) == event_basename(event) \notin Kinds

\* emit_state_request, lines 811-818: the viewer_id guard and the kind check.  A call
\* that passes them goes on to clear the kind's signal.
EmitEnter(t, op, vid, event, fname) ==
    /\ FirstFree(t, AppPool) /\ hist.calls + hist.inbound < MaxPull
    /\ IdMatches(vid) => Focused(event_basename(event))
    /\ hist' = [hist EXCEPT !.calls = @ + 1]
    /\ th' = [th EXCEPT ![t] =
          IF ~IdMatches(vid) THEN IdleFrame
          ELSE IF UnknownKind(event)
          THEN [IdleFrame EXCEPT !.pc = "done", !.op = op, !.ret = ValueError,
                                 !.kind = event_basename(event)]
          ELSE [IdleFrame EXCEPT !.op = op, !.pc = "emit_clear", !.fname = fname,
                                 !.kind = event_basename(event)]]
    /\ UNCHANGED <<sessionState, outbox, triggered>>

\* ViewerClient.emit_state_request called directly by application code.
emit_state_request(t, vid, event) == EmitEnter(t, "emit_state_request", vid, event, NoFile)
\* ViewerClient.camera, line 725
camera(t) == EmitEnter(t, "camera", SelfId, RequestEvent("camera_info"), NoFile)
\* ViewerClient.selected_object, line 733
selected_object(t) ==
    EmitEnter(t, "selected_object", SelfId, RequestEvent("selected_object"), NoFile)
\* ViewerClient.screenshot, lines 751-757
screenshot(t, filename) ==
    EmitEnter(t, "screenshot", SelfId, RequestEvent("screenshot"), filename)

pullState == <<objects, ui_controls, interactive_console_enabled, warning_emitted,
               print_buffer, capture_prints_enabled, mirrored, console_scope, console_exec_lock,
               alive, triggered>>

\* emit_state_request, line 820: self._request_threads[kind].clear()
EmitClear(t) ==
    /\ At(t, "emit_clear")
    /\ request_threads' = [request_threads EXCEPT ![th[t].kind] = FALSE]
    /\ th' = Goto(t, "emit_reset")
    /\ UNCHANGED <<pullState, request_data, outbox, hist>>

\* emit_state_request, line 821: self._request_data[kind] = None
EmitResetSkip(t) ==
    /\ At(t, "emit_reset")
    /\ th' = Goto(t, "emit_send")
    /\ UNCHANGED <<pullState, request_threads, request_data, outbox, hist>>
EmitReset(t) ==
    /\ At(t, "emit_reset")
    /\ request_data' = [request_data EXCEPT ![th[t].kind] = None]
    /\ th' = Goto(t, "emit_send")
    /\ UNCHANGED <<pullState, request_threads, outbox, hist>>

\* emit_state_request, lines 822-823: send relay_state_request (tagged with
\* self.viewer_id); camera/selected_object/screenshot then wait for the signal.
EmitSend(t) ==
    /\ At(t, "emit_send")
    /\ outbox' = Append(outbox, Msg("relay_state_request", th[t].kind, 0, <<>>))
    /\ th' = IF th[t].op = "emit_state_request" THEN Finish(t) ELSE Goto(t, "wait")
    /\ hist' = [hist EXCEPT !.emits[th[t].kind] = @ + 1]
    /\ UNCHANGED <<pullState, request_threads, request_data>>

\* Event.wait(timeout) returns True: the signal is set.
WaitSignalled(t) ==
    /\ At(t, "wait")
    /\ request_threads[th[t].kind]
    /\ th' = Goto(t, "read")
    /\ UNCHANGED <<pullState, request_threads, request_data, outbox, hist>>

\* Event.wait(timeout) returns False: the timeout elapsed with the signal not set.
WaitForever(t) == At(t, "wait") /\ FALSE /\ UNCHANGED vars
WaitTimeout(t) ==
    /\ At(t, "wait")
    /\ ~request_threads[th[t].kind]
    /\ th' = Return(t, None)
    /\ UNCHANGED <<pullState, request_threads, request_data, outbox, hist>>

\* screenshot, lines 768-779: the extension decides the pixel format.
Filenames == {NoFile, "shot", "shot.png", "shot.jpg", "shot.JPEG", "shot.gif"}
\* os.path.splitext(filename)[1].lower(), '.png' when the name has no extension
ExtLower(filename) ==
    CASE filename = "shot" -> ".png"
      [] filename = "shot.png" -> ".png"
      [] filename = "shot.jpg" -> ".jpg"
      [] filename = "shot.JPEG" -> ".jpeg"
      [] OTHER -> ".gif"
Pixels(channels) == [v |-> channels, form |-> "pixels"]
\* screenshot, lines 759-784: what the call returns (or raises) for a stored payload.
\* With no filename `ext` is never assigned and line 776 reads it.
ScreenshotResult(img_b64, filename) ==
    IF img_b64 \in {None, EmptyString} THEN None
    ELSE IF filename = NoFile THEN UnboundLocalError
    ELSE IF ExtLower(filename) \notin {".png", ".jpg", ".jpeg"} THEN ValueError
    ELSE IF ExtLower(filename) = ".png" THEN Pixels(4) ELSE Pixels(3)

\* What camera/selected_object/screenshot return once wait() returned True.
PullResult(op, data, filename) ==
    CASE op = "camera" -> as_array(data)
      [] op = "selected_object" -> data
      [] OTHER -> ScreenshotResult(data, filename)

\* camera line 727, selected_object line 735, screenshot line 759: read the slot.
ReadAndConsume(t) ==
    /\ At(t, "read")
    /\ th' = [Return(t, PullResult(th[t].op, request_data[th[t].kind], th[t].fname))
                 EXCEPT ![t].fresh = th[t].fresh]
    /\ request_threads' = [request_threads EXCEPT ![th[t].kind] = FALSE]
    /\ request_data' = [request_data EXCEPT ![th[t].kind] = None]
    /\ UNCHANGED <<pullState, outbox, hist>>
ReadData(t) ==
    /\ At(t, "read")
    /\ th' = [Return(t, PullResult(th[t].op, request_data[th[t].kind], th[t].fname))
                 EXCEPT ![t].fresh = th[t].fresh]
    /\ UNCHANGED <<pullState, request_threads, request_data, outbox, hist>>

\* Thread t is inside emit_state_request or a pull call for kind k.  Its `fresh` notes
\* (observation only) that the slot was written by a handler since the call began.
InCall(t, k) ==
    th[t].kind = k /\ th[t].pc \in {"emit_clear", "emit_reset", "emit_send", "wait", "read"}

\* Number of pull calls of kind k that are blocked in wait().
Waiting(k) == Cardinality({t \in AppThreads : th[t].pc = "wait" /\ th[t].kind = k})

\* handle_state_request, lines 827-833: the viewer_id guard and the kind check.
handle_state_request(w, vid, event, data) ==
    /\ Receives(w) /\ hist.calls + hist.inbound < MaxPull
    /\ IdMatches(vid) => Focused(event_basename(event))
    /\ IF ~IdMatches(vid) THEN Drop(w, "handle_state_request", vid)
       ELSE LET k == event_basename(event) IN
            /\ th' = [th EXCEPT ![w] =
                  IF UnknownKind(event)
                  THEN [IdleFrame EXCEPT !.pc = "done", !.op = "handle_state_request",
                                         !.ret = ValueError, !.kind = k]
                  ELSE [IdleFrame EXCEPT !.op = "handle_state_request", !.pc = "store",
                                         !.kind = k, !.arg = data]]
            /\ hist' = IF UnknownKind(event) THEN Delivery("handle_state_request", vid)
                       ELSE [Delivery("handle_state_request", vid) EXCEPT !.responses[k] = @ + 1,
                                         !.waiting[k] = Waiting(k)]
            /\ UNCHANGED <<sessionState, outbox, triggered>>

\* The transport runs the handlers of inbound messages on one thread, its receive loop.
OnAnyThread(w) == w \in Workers
OnTransportThread(w) == w = WorkerPool[1]

\* A handler of an inbound message (an event callback, a console command) calls
\* viewer.camera(): the pull call runs on the thread that delivered the message.
callback_camera(w) ==
    /\ Receives(w) /\ hist.calls + hist.inbound < MaxPull
    /\ Focused("camera_info")
    /\ th' = [th EXCEPT ![w] = [IdleFrame EXCEPT !.op = "camera", !.pc = "emit_clear",
                                                 !.kind = "camera_info"]]
    /\ hist' = Delivery("callback", SelfId)
    /\ UNCHANGED <<sessionState, outbox, triggered>>

\* handle_state_request, line 835: self._request_data[kind] = data.get('data')
StoreNothing(w) ==
    /\ At(w, "store")
    /\ th' = [th EXCEPT ![w].pc = "signal"]
    /\ UNCHANGED <<pullState, request_threads, request_data, outbox, hist>>
StoreData(w) ==
    /\ At(w, "store")
    /\ request_data' = [request_data EXCEPT ![th[w].kind] = th[w].arg]
    /\ th' = [t \in Threads |->
                 IF t = w THEN [th[t] EXCEPT !.pc = "signal"]
                 ELSE IF InCall(t, th[w].kind) THEN [th[t] EXCEPT !.fresh = TRUE]
                 ELSE th[t]]
    /\ UNCHANGED <<pullState, request_threads, outbox, hist>>

\* handle_state_request, line 836: self._request_threads[kind].set()
SetSignal(w) ==
    /\ At(w, "signal")
    /\ request_threads' = [request_threads EXCEPT ![th[w].kind] = TRUE]
    /\ th' = Finish(w)
    /\ UNCHANGED <<pullState, request_data, outbox, hist>>

\* The caller of a finished call takes its result (or exception); the thread is free.
Resume(t) ==
    /\ At(t, "done")
    /\ th' = [th EXCEPT ![t] = IdleFrame]
    /\ UNCHANGED <<sessionState, outbox, triggered, hist>>

\* ------------------------------------------------------------ plot helpers
\* Python integers are unbounded: one is kept as three limbs <<hi, mid, lo>>, worth
\* hi * Limb^2 + mid * Limb + lo.  A value that is not positive has hi = mid = 0.
Limb == 2^20
int(n) == <<0, 0, n>>
carry(x) ==
    LET mid == x[2] + (x[3] \div Limb)
    IN <<x[1] + (mid \div Limb), mid % Limb, x[3] % Limb>>
plus(x, n) == carry(<<x[1], x[2], x[3] + n>>)
times(x, n) == carry(<<x[1] * n, x[2] * n, x[3] * n>>)
less(x, y) ==
    \/ x[1] < y[1]
    \/ x[1] = y[1] /\ x[2] < y[2]
    \/ x[1] = y[1] /\ x[2] = y[2] /\ x[3] < y[3]
positive(x) == less(int(0), x)
\* divmod(x, n) for 0 <= x, 0 < n
divmod(x, n) ==
    LET mid == (x[1] % n) * Limb + x[2]
        lo == (mid % n) * Limb + x[3]
    IN [q |-> <<x[1] \div n, mid \div n, lo \div n>>, r |-> lo % n]
\* int.bit_length()
limb_length(n) == CHOOSE k \in 0..20 : n < 2^k /\ (k = 0 \/ 2^(k - 1) <= n)
bit_length(x) ==
    IF x[1] > 0 THEN 40 + limb_length(x[1])
    ELSE IF x[2] > 0 THEN 20 + limb_length(x[2]) ELSE limb_length(x[3])

\* A float has a significand of 53 bits (IEEE 754 binary64).
float_mantissa_bits == 53
\* ceil of the float nearest to q + r/n (0 <= r < n), ties going to the even
\* significand: what np.ceil / math.ceil sees after the quotient was rounded.
ceil_of_float(q, r, n) ==
    LET bits == bit_length(q)
    IN IF bits <= float_mantissa_bits
       THEN \* floats around q are 2^(bits - 53) apart, q itself is one of them
            LET shift == float_mantissa_bits + 1 - bits
                below_half == shift <= 20 /\ r * 2^shift < n
                at_half == shift <= 20 /\ r * 2^shift = n
                q_even == bits < float_mantissa_bits \/ q[3] % 2 = 0
            IN IF r = 0 \/ below_half \/ (at_half /\ q_even) THEN q ELSE plus(q, 1)
       ELSE \* floats around q are the multiples of 2^(bits - 53)
            LET ulp == 2^(bits - float_mantissa_bits)
                low == q[3] % ulp
                down == <<q[1], q[2], q[3] - low>>
                down_even == (q[3] \div ulp) % 2 = 0
            IN IF 2 * low < ulp \/ (2 * low = ulp /\ r = 0 /\ down_even) THEN down
               ELSE plus(down, ulp)
\* np.int64 operands are converted to float64 before the division; Python ints are
\* divided exactly and the quotient is rounded once.
to_float(val) == ceil_of_float(val, 0, 1)
ArgKinds == {"int", "int64"}
\* int(np.ceil(val / base))
ceil_true_divide(val, base, kind) ==
    LET dividend == IF kind = "int64" THEN to_float(val) ELSE val
    IN ceil_of_float(divmod(dividend, base).q, divmod(dividend, base).r, base)

\* plot_helpers.nice_ceil
nice_ceil(val, base, kind) ==
    IF positive(val) THEN times(ceil_true_divide(val, base, kind), base) ELSE int(base)

\* An application thread calls nice_ceil(val, base) and has the result.
PlotCall(t, op, val, base, kind, result) ==
    /\ FirstFree(t, AppPool)
    /\ th' = [th EXCEPT ![t] = [IdleFrame EXCEPT
                  !.pc = "done", !.op = op,
                  !.arg = [v |-> 0, form |-> kind, val |-> val, base |-> base],
                  !.ret = [v |-> 0, form |-> "int", limbs |-> result]]]
    /\ UNCHANGED <<sessionState, outbox, triggered, hist>>
call_nice_ceil(t, val, base, kind) ==
    PlotCall(t, "nice_ceil", val, base, kind, nice_ceil(val, base, kind))
\* plot_helpers.create_histogram, lines 19-24: maxcount is the largest bin count, an
\* np.int64; nice_max is the upper end of the y axis.
create_histogram(t, maxcount) ==
    PlotCall(t, "create_histogram", int(maxcount), 5, "int64",
             plus(nice_ceil(int(maxcount), 5, "int64"), 1))

\* ---------------------------------------------------------- specifications
\* Application code registering entities.
Registration ==
    \/ \E t \in AppThreads, n \in Names \cup {NoName} : add_mesh(t, n)
    \/ \E t \in AppThreads, n \in Names : _add_control(t, n)
    \/ \E t \in AppThreads, n \in Names : add_plotly(t, n)

\* Inbound messages whose handler runs without touching state another handler races on.
Routing ==
    \/ \E w \in Workers, vid \in ViewerIds : handle_heartbeat(w, vid)
    \/ \E w \in Workers, vid \in ViewerIds, c \in Names, v \in EventData :
           handle_ui_event_from_server(w, vid, c, v)
    \/ \E w \in Workers, vid \in ViewerIds, o \in Names, u \in UpdateIds :
           handle_update_object(w, vid, o, u)
    \/ \E w \in Workers, vid \in ViewerIds : handle_restart_script(w, vid)
    \/ \E w \in Workers, vid \in ViewerIds, d \in EventData : handle_events_camera(w, vid, d)
    \/ \E w \in Workers, vid \in ViewerIds, d \in EventData : handle_events_inspect(w, vid, d)
    \/ \E w \in Workers, vid \in ViewerIds, d \in EventData :
           handle_events_select_object(w, vid, d)
    \/ \E w \in Workers, vid \in ViewerIds, d \in EventData : handle_events_gizmo(w, vid, d)
    \/ \E w \in Workers, vid \in ViewerIds : handle_request_state(w, vid)

\* The remote console: the two handlers ...
ConsoleCommand ==
    \E w \in Workers, vid \in ViewerIds, isdict \in BOOLEAN, c \in Commands :
        handle_console_command(w, vid, isdict, c)
ConsoleComplete ==
    \E w \in Workers, vid \in ViewerIds, isdict \in BOOLEAN, c \in Prefixes :
        handle_console_complete(w, vid, isdict, c)
\* ... and the steps of the calls they make.
ConsoleSteps ==
    \/ \E w \in Workers : WarnCheck(w)
    \/ \E w \in Workers : WarnSet(w)
    \/ \E w \in Workers : WarnEmit(w)
    \/ \E w \in Workers : ExecEnter(w)
    \/ \E w \in Workers : ExecAcquire(w)
    \/ \E w \in Workers : ExecRun(w)
    \/ \E w \in Workers : ExecFlush(w)
    \/ \E w \in Workers : CompleteAcquire(w)
    \/ \E w \in Workers : CompleteRun(w)
Console == ConsoleCommand \/ ConsoleComplete \/ ConsoleSteps

\* The console when the transport delivers one message at a time: the next message is
\* handed to a handler only after the previous handler has returned.
AllWorkersIdle == \A w \in Workers : th[w].pc = "idle"
ConsoleSeq ==
    \/ AllWorkersIdle /\ ConsoleCommand
    \/ AllWorkersIdle /\ ConsoleComplete
    \/ ConsoleSteps

\* The statements of a pull call and of handle_state_request, one step each.
PullSteps ==
    \/ \E t \in AppThreads : EmitClear(t)
    \/ \E t \in AppThreads : EmitReset(t)
    \/ \E t \in AppThreads : EmitSend(t)
    \/ \E t \in AppThreads : WaitSignalled(t)
    \/ \E t \in AppThreads : WaitTimeout(t)
    \/ \E t \in AppThreads : ReadData(t)
    \/ \E w \in Workers : StoreData(w)
    \/ \E w \in Workers : SetSignal(w)
    \/ \E t \in Threads : Resume(t)

\* The request correlator: pull calls on application threads, answers on workers.
PullFilenames == {"shot.jpg"}
Pull ==
    \/ \E t \in AppThreads, vid \in ViewerIds, e \in EventNames : emit_state_request(t, vid, e)
    \/ \E t \in AppThreads : camera(t)
    \/ \E t \in AppThreads : selected_object(t)
    \/ \E t \in AppThreads, f \in PullFilenames : screenshot(t, f)
    \/ \E w \in Workers, vid \in ViewerIds, e \in EventNames :
           \E d \in ResponseDataOf(event_basename(e)) : handle_state_request(w, vid, e, d)
    \/ PullSteps

Next == Registration \/ Routing \/ Console \/ Pull
Spec == Init /\ [][Next]_vars

SpecConsole == Init /\ [][Console]_vars
SpecConsoleSeq == Init /\ [][ConsoleSeq]_vars

\* A viewer_id other than the session's own, or none at all.
ForeignIds == ViewerIds \ {SelfId}
\* Worker w is handed a message tagged vid by one of the handlers that guard on
\* viewer_id (every registered handler but handle_request_state).
GuardedDelivery(w, vid) ==
    \/ handle_heartbeat(w, vid)
    \/ \E c \in Names, v \in EventData : handle_ui_event_from_server(w, vid, c, v)
    \/ \E o \in Names, u \in UpdateIds : handle_update_object(w, vid, o, u)
    \/ handle_restart_script(w, vid)
    \/ \E d \in EventData :
           \/ handle_events_camera(w, vid, d) \/ handle_events_inspect(w, vid, d)
           \/ handle_events_select_object(w, vid, d) \/ handle_events_gizmo(w, vid, d)
    \/ \E c \in Commands : handle_console_command(w, vid, TRUE, c)
    \/ \E c \in Prefixes : handle_console_complete(w, vid, TRUE, c)
    \/ \E e \in EventNames :
           \E d \in ResponseDataOf(event_basename(e)) : handle_state_request(w, vid, e, d)

\* One message addressed to the session per component, enough to put the session in
\* each kind of state: an entity updated, an event triggered, the console running, a
\* request answered, the script restarted.
SelfDelivery(w) ==
    \/ handle_heartbeat(w, SelfId)
    \/ \E v \in EventData : handle_ui_event_from_server(w, SelfId, "a", v)
    \/ handle_update_object(w, SelfId, "a", 1)
    \/ handle_restart_script(w, SelfId)
    \/ \E d \in EventData : handle_events_camera(w, SelfId, d)
    \/ handle_console_command(w, SelfId, TRUE, "x = 5")
    \/ handle_console_complete(w, SelfId, TRUE, "x")
    \/ \E d \in ResponseDataOf("camera_info") :
           handle_state_request(w, SelfId, RequestEvent("camera_info"), d)

\* The whole session: all components together, the session's own operations and
\* messages interleaved with messages of every kind addressed to other sessions, cut
\* after MaxSession operations.
Started == hist.adds + hist.calls + hist.inbound
SessionStart ==
    \/ \E t \in AppThreads : add_mesh(t, "a")
    \/ \E t \in AppThreads : _add_control(t, "a")
    \/ \E t \in AppThreads : camera(t)
    \/ \E w \in Workers : SelfDelivery(w)
    \/ \E w \in Workers, vid \in ForeignIds : GuardedDelivery(w, vid)
    \/ \E w \in Workers, vid \in ViewerIds : handle_request_state(w, vid)
Session ==
    \/ Started < MaxSession /\ SessionStart
    \/ ConsoleSteps
    \/ PullSteps
SpecSession == Init /\ [][Session]_vars

InitPull == Init /\ ~interactive_console_enabled
SpecPull == InitPull /\ [][Pull]_vars

\* A thread that is inside a call keeps running: the scheduler does not starve it, and
\* Event.wait(timeout) returns when the signal is set or the timeout has elapsed.
AppStep(t) ==
    \/ EmitClear(t) \/ EmitReset(t) \/ EmitSend(t)
    \/ WaitSignalled(t) \/ WaitTimeout(t) \/ ReadData(t)
FairPull == SpecPull /\ \A t \in AppThreads : WF_vars(AppStep(t))
SpecRouting == Init /\ [][Registration \/ Routing]_vars

\* Pull calls made from handlers: the transport thread delivers answers and runs the
\* callbacks that pull; an application thread pulls as well.
PullOnTransport ==
    \/ \E w \in Workers : OnTransportThread(w) /\ callback_camera(w)
    \/ \E w \in Workers, vid \in ViewerIds, d \in ResponseDataOf("camera_info") :
           OnTransportThread(w) /\ handle_state_request(w, vid, RequestEvent("camera_info"), d)
    \/ \E t \in AppThreads : camera(t)
    \/ \E t \in Threads : EmitClear(t)
    \/ \E t \in Threads : EmitReset(t)
    \/ \E t \in Threads : EmitSend(t)
    \/ \E t \in Threads : WaitSignalled(t)
    \/ \E t \in Threads : WaitTimeout(t)
    \/ \E t \in Threads : ReadData(t)
    \/ \E w \in Workers : StoreData(w)
    \/ \E w \in Workers : SetSignal(w)
    \/ \E t \in Threads : Resume(t)
\* Console requests of this viewer on concurrent workers, over a connection that can
\* go down; a thread inside a handler keeps running (the scheduler does not starve it).
ConsoleLive ==
    \/ \E w \in Workers, c \in {"1+1", "1/0"} : handle_console_command(w, SelfId, TRUE, c)
    \/ \E w \in Workers, c \in {"pri", "y."} : handle_console_complete(w, SelfId, TRUE, c)
    \/ \E w \in Workers : transport_drops(w)
    \/ \E w \in Workers : Resume(w)
    \/ ConsoleSteps
\* The step of CompleteRun seen from its thread: the handler leaves the locked block.
CompleteLeaves(w) ==
    At(w, "complete_run") /\ th' \in {Finish(w), Return(w, ConnectionError)}
WorkerStep(w) ==
    \/ WarnCheck(w) \/ WarnSet(w) \/ WarnEmit(w)
    \/ ExecEnter(w) \/ ExecAcquire(w) \/ ExecRun(w) \/ ExecFlush(w)
    \/ CompleteAcquire(w) \/ Resume(w)
FairConsole ==
    /\ Init /\ [][ConsoleLive]_vars
    /\ \A w \in Workers : WF_vars(WorkerStep(w)) /\ WF_th(CompleteLeaves(w))

\* Registrations that reuse names, and full-state requests of this viewer.
ReRegister ==
    \/ \E t \in AppThreads, n \in Names : add_mesh_within(t, n, MaxReRegister)
    \/ \E t \in AppThreads, n \in Names : _add_control_within(t, n, MaxReRegister)
    \/ \E w \in Workers : handle_request_state_within(w, SelfId, MaxReRegister)
SpecReRegister == Init /\ [][ReRegister]_vars

\* Commands that print and then produce a value or raise, delivered to concurrent
\* workers, next to a completion request and a command with a value only.
OrderCommands == {"1+1", "print(1) or 5", "print(1); 1/0",
                  "print('e', file=sys.stderr) or print(1) or 7"}
ConsoleOrder ==
    \/ \E w \in Workers, c \in OrderCommands : handle_console_command(w, SelfId, TRUE, c)
    \/ \E w \in Workers : handle_console_complete(w, SelfId, TRUE, "pri")
    \/ ConsoleSteps
SpecConsoleOrder == Init /\ [][ConsoleOrder]_vars

\* Calls of the plot helpers: small values, values that are not positive, and integers
\* at and above 2^51 (k * 2^51 + d), where floats are no longer dense enough to hold
\* every quotient.  The helpers are pure: one calling thread shows all they do.
Bases == {1, 2, 5, 10}
SmallVals == {int(n) : n \in -1..MaxCount}
LargeVals == {<<k * 2^11, 0, d>> : k \in {1, 4, 5, 10, 20}, d \in 0..MaxCount}
PlotHelpers ==
    \/ \E val \in SmallVals \cup LargeVals, base \in Bases, kind \in ArgKinds :
           call_nice_ceil(AppPool[1], val, base, kind)
    \/ \E maxcount \in 0..MaxCount : create_histogram(AppPool[1], maxcount)
    \/ \E t \in AppThreads : Resume(t)
SpecPlotHelpers == Init /\ [][PlotHelpers]_vars

SpecPullOnTransport == InitPull /\ [][PullOnTransport]_vars

\* screenshot() with every kind of filename, answered (or not) by the frontend.
Screenshots ==
    \/ \E t \in AppThreads, f \in Filenames : screenshot(t, f)
    \/ \E w \in Workers, d \in ResponseDataOf("screenshot") :
           handle_state_request(w, SelfId, RequestEvent("screenshot"), d)
    \/ PullSteps
SpecScreenshot == InitPull /\ [][Screenshots]_vars

\* Registration, console traffic (handled one message at a time) and full-state
\* requests together: what a late-joining frontend is sent.
Resync ==
    \/ Registration
    \/ \E w \in Workers, vid \in ViewerIds : handle_request_state(w, vid)
    \/ AllWorkersIdle /\ \E w \in Workers : handle_console_command(w, SelfId, TRUE, "1+1")
    \/ AllWorkersIdle /\ \E w \in Workers : handle_console_complete(w, SelfId, TRUE, "pri")
    \/ ConsoleSteps
SpecResync == Init /\ [][Resync]_vars

\* The console as an application uses it: its own prints and scope changes, commands
\* from the frontend (one message at a time) and full-state requests.
AppCommands == {"x", "x = 5", "print(1)", "print('e', file=sys.stderr)", "1/0"}
ConsoleAppStart ==
    \/ \E t \in AppThreads : print_colored(t, "hi", "red")
    \/ \E t \in AppThreads : app_print(t, "p")
    \/ \E t \in AppThreads, e \in BOOLEAN : capture_prints(t, e)
    \/ \E t \in AppThreads, g \in {NoScope, "user"}, l \in {NoScope, "main"} :
           set_console_scope(t, g, l)
    \/ \E t \in AppThreads, n \in Namespaces : bind_x(t, n)
    \/ \E w \in Workers, c \in AppCommands : handle_console_command(w, SelfId, TRUE, c)
    \/ \E w \in Workers : handle_console_complete(w, SelfId, TRUE, "x")
    \/ \E w \in Workers : handle_request_state(w, SelfId)
ConsoleApp ==
    \/ AllWorkersIdle /\ Started < MaxConsole /\ ConsoleAppStart
    \/ ConsoleSteps
SpecConsoleApp == Init /\ [][ConsoleApp]_vars

\* The console as a function of what is typed: commands and completion requests of
\* this viewer, one message at a time.
FnCommands == {"", "   ", "1+1", "None", "x = 5", "x", "1 +", "1/0", "exit()"}
FnPrefixes == {"", "pri", "p", "x", "x.", "x.__a", "x.b ", "y.", ".pri", "1"}
ConsoleFn ==
    \/ /\ AllWorkersIdle
       /\ \E w \in Workers, c \in FnCommands : handle_console_command(w, SelfId, TRUE, c)
    \/ /\ AllWorkersIdle
       /\ \E w \in Workers, c \in FnPrefixes : handle_console_complete(w, SelfId, TRUE, c)
    \/ ConsoleSteps
SpecConsoleFn == Init /\ [][ConsoleFn]_vars

\* ------------------------------------------------------------------ claims
\* C1: a message whose viewer_id differs from the session's (or is absent), delivered
\* to any guarded handler, is a no-op: objects, ui_controls, the request slots and
\* signals, the console buffer, the warn-once flag, the console scope and the lock are
\* unchanged, no event is triggered, nothing is emitted, no console code is executed,
\* and the handler has returned.
C1_ForeignMessageIsNoOp ==
    [][\A w \in Workers, vid \in ForeignIds :
           GuardedDelivery(w, vid)
               => /\ UNCHANGED <<sessionState, triggered, outbox, th>>
                  /\ hist'.execs = hist.execs /\ hist'.completes = hist.completes]_vars
\* A foreign message reached a guarded handler of a session that holds an object.
C1_Witness == hist.dropped > 0 /\ objects # <<>>

\* C2: no inbound handler, handle_request_state included, emits anything on the
\* transport for a message addressed to another viewer_id.
C2_ForeignMessageEmitsNothing ==
    [][\A w \in Workers, vid \in ForeignIds :
           (GuardedDelivery(w, vid) \/ handle_request_state(w, vid))
               => outbox' = outbox]_vars

\* Worker w is evaluating/executing a command or collecting/emitting completions.
InConsoleWork(w) == th[w].pc \in {"exec_run", "exec_flush", "complete_run"}

\* C3: at most one of {execution of a command, collection and emission of completions}
\* is in progress at any time, and whoever is in progress holds the session lock.
C3_ConsoleMutualExclusion ==
    /\ Cardinality({w \in Workers : InConsoleWork(w)}) <= 1
    /\ \A w \in Workers : InConsoleWork(w) => console_exec_lock = w
\* A completion is delivered while a command is executing, and waits for the lock.
C3_Witness ==
    \E w, v \in Workers : th[w].pc = "exec_run" /\ th[v].pc = "complete_lock"

WarningMsg == Msg("console_output", "", 0, <<Segment(WarningText, "yellow")>>)
WarningsEmitted ==
    Cardinality({i \in 1..Len(outbox) : outbox[i].event = "console_output"
                                        /\ outbox[i].segs = WarningMsg.segs})

\* C4: with the console disabled and messages handled one after another, the first
\* console message addressed to the session emits exactly one warning, later ones emit
\* nothing, and none executes code, collects completions or changes the console scope.
C4_DisabledConsoleWarnsOnce ==
    ~interactive_console_enabled =>
        /\ hist.execs = 0 /\ hist.completes = 0
        /\ console_scope = [globals |-> NoScope, locals |-> NoScope, ns |-> InitNamespaces]
        /\ console_exec_lock = NoThread
        /\ WarningsEmitted <= 1 /\ Len(outbox) <= 1
        /\ (hist.addressed >= 1 /\ AllWorkersIdle) =>
               (outbox = <<WarningMsg>> /\ print_buffer = <<WarningText>>)
\* Two console messages were handled by a disabled session; one warning is out.
C4_Witness ==
    /\ ~interactive_console_enabled /\ AllWorkersIdle
    /\ hist.addressed >= 2 /\ outbox = <<WarningMsg>>

\* C5: no interleaving of two console handlers of a disabled session produces two
\* warning emissions.
C5_WarnsOnceUnderInterleaving == ~interactive_console_enabled => WarningsEmitted <= 1

PullOps == {"camera", "selected_object", "screenshot"}
\* Thread t has returned from a pull call of kind k.
Returned(t, k) == th[t].pc = "done" /\ th[t].op \in PullOps /\ th[t].kind = k
\* ... with a payload (neither the sentinel nor an exception).
ReturnedPayload(t, k) ==
    Returned(t, k) /\ th[t].ret \notin {None, ValueError, UnboundLocalError}
\* Two pull calls of kind k were both waiting when the only answer of kind k arrived,
\* and no third request has been issued or begun.
TwoWaitersOneAnswer(k) ==
    /\ hist.emits[k] = 2 /\ hist.responses[k] = 1 /\ hist.waiting[k] = 2
    /\ \A t \in AppThreads : th[t].pc \notin {"emit_clear", "emit_reset", "emit_send"}

\* C6 (as stated): of two calls waiting for one kind, one answer resolves at most one
\* with a payload.
C6_AtMostOneResolved ==
    \A k \in Kinds :
        TwoWaitersOneAnswer(k) =>
            Cardinality({t \in AppThreads : ReturnedPayload(t, k)}) <= 1

\* C6 (amended): the handler stores the answer in the kind's shared slot before it sets
\* the signal, the signal releases every waiter, and each of the two calls returns what
\* that slot holds (the one answer) or the sentinel; both may return the payload.
C6_EachWaiterGetsAnswerOrSentinel ==
    \A k \in Kinds :
        TwoWaitersOneAnswer(k) =>
            /\ \A w \in Workers :
                   (th[w].pc = "signal" /\ th[w].kind = k) => request_data[k] = th[w].arg
            /\ \A t \in AppThreads :
                   /\ (th[t].pc = "read" /\ th[t].kind = k) => request_threads[k]
                   /\ Returned(t, k) =>
                          th[t].ret \in {None, PullResult(th[t].op, request_data[k],
                                                          th[t].fname)}
\* One answer resolved both waiting calls with a payload.
C6_Witness ==
    \E k \in Kinds :
        /\ TwoWaitersOneAnswer(k)
        /\ \A t \in AppThreads : ReturnedPayload(t, k)

RelayMsg(k) == Msg("relay_state_request", k, 0, <<>>)
\* What the three statements of emit_state_request after the checks do, step by step.
EmitEffect(t) ==
    /\ (th[t].pc = "emit_clear" /\ th'[t].pc # "emit_clear")
           => ~request_threads'[th[t].kind] /\ th'[t].pc = "emit_reset"
    /\ (th[t].pc = "emit_reset" /\ th'[t].pc # "emit_reset")
           => request_data'[th[t].kind] = None /\ th'[t].pc = "emit_send"
    /\ (th[t].pc = "emit_send" /\ th'[t].pc # "emit_send")
           => outbox' = Append(outbox, RelayMsg(th[t].kind))
\* A call that has reset the slot and has seen no answer since it began finds it empty.
PendingAfterEmit(t) ==
    (th[t].pc \in {"emit_send", "wait", "read"} /\ ~th[t].fresh)
        => request_data[th[t].kind] = None

\* C7: emit_state_request clears the kind's signal, empties its slot and sends exactly
\* one relay_state_request; a pull call never returns a payload stored before the call
\* began (only an answer stored since the call began can be returned).
C7_NoStalePayload ==
    /\ [][/\ \A t \in AppThreads : EmitEffect(t)
          /\ outbox' # outbox => \E t \in AppThreads : th[t].pc = "emit_send"]_vars
    /\ [](\A t \in AppThreads :
             /\ PendingAfterEmit(t)
             /\ \A k \in Kinds : ReturnedPayload(t, k) => th[t].fresh)
\* A second request is pending with an empty slot and a clear signal, after an answer
\* to the first request had been stored before the second began: it was discarded.
C7_Witness ==
    \E t \in AppThreads, k \in Kinds :
        /\ th[t].pc = "wait" /\ th[t].kind = k /\ ~th[t].fresh
        /\ hist.emits[k] = 2 /\ hist.responses[k] = 1 /\ AllWorkersIdle
        /\ request_data[k] = None /\ ~request_threads[k]

\* Kind k was requested once and answered once, no handler is running and no second
\* request of kind k has begun.
OneRequestOneAnswer(k) ==
    /\ hist.emits[k] = 1 /\ hist.responses[k] = 1 /\ AllWorkersIdle
    /\ Cardinality({u \in AppThreads : th[u].kind = k}) = 1

\* C8 (as stated): after a pull call has returned a payload, the kind's signal is no
\* longer set and its slot is empty.
C8_SlotIdleAfterReturn ==
    \A k \in Kinds, t \in AppThreads :
        (OneRequestOneAnswer(k) /\ ReturnedPayload(t, k))
            => ~request_threads[k] /\ request_data[k] = None

\* C8 (amended): a wait released by the signal returns the stored payload and resets
\* nothing: after the call has returned a payload, the kind's signal is still set and
\* its slot still holds the payload, until the next emit_state_request.
C8_SlotStaysFulfilled ==
    \A k \in Kinds, t \in AppThreads :
        (OneRequestOneAnswer(k) /\ ReturnedPayload(t, k))
            => /\ request_threads[k]
               /\ request_data[k] # None
               /\ th[t].ret = PullResult(th[t].op, request_data[k], th[t].fname)
\* A pull call has returned a payload and nothing else is going on.
C8_Witness ==
    \E k \in Kinds, t \in AppThreads : OneRequestOneAnswer(k) /\ ReturnedPayload(t, k)

InPull(t) ==
    th[t].op \in PullOps /\ th[t].pc \in {"emit_clear", "emit_reset", "emit_send", "wait", "read"}

\* C9: a pull call always terminates; when no answer of its kind was ever delivered it
\* returns None (raising nothing) and leaves the kind's slot empty, the signal not set.
C9_UnansweredPullTerminates ==
    /\ \A t \in AppThreads : InPull(t) ~> th[t].pc = "done"
    /\ [](\A t \in AppThreads, k \in Kinds :
             (Returned(t, k) /\ hist.responses[k] = 0)
                 => th[t].ret = None /\ ~request_threads[k] /\ request_data[k] = None)
\* A pull call of a kind nobody answered has returned.
C9_Witness ==
    \E t \in AppThreads, k \in Kinds :
        Returned(t, k) /\ hist.responses[k] = 0 /\ hist.emits[k] = 1 /\ th[t].ret = None

KnownKinds == {"camera_info", "selected_object", "screenshot"}
StateRequestOps == {"emit_state_request", "handle_state_request"}
\* Thread t starts, in this step, a call addressed to the session whose event has an
\* unknown base name.
StartsUnknownKind(t) ==
    /\ th[t].pc = "idle" /\ th'[t].pc # "idle"
    /\ th'[t].op \in StateRequestOps /\ th'[t].kind \notin KnownKinds

\* C10: emit_state_request and handle_state_request, called with the session's
\* viewer_id and an event of unknown base name, raise ValueError at once, modify no
\* signal and no slot, and emit nothing.
C10_UnknownKindFailsFast ==
    /\ [][\A t \in Threads :
             StartsUnknownKind(t)
                 => /\ th'[t].pc = "done" /\ th'[t].ret = ValueError
                    /\ UNCHANGED <<request_threads, request_data, outbox>>]_vars
    /\ [](\A t \in Threads :
             (th[t].op \in StateRequestOps /\ th[t].kind \notin KnownKinds)
                 => th[t].pc = "done" /\ th[t].ret = ValueError)
\* Both operations have failed on an unknown kind while a slot was fulfilled.
C10_Witness ==
    /\ \E t \in AppThreads : /\ th[t].op = "emit_state_request" /\ th[t].kind = "bogus"
                             /\ th[t].ret = ValueError
    /\ \E w \in Workers : /\ th[w].op = "handle_state_request" /\ th[w].kind = "bogus"
                          /\ th[w].ret = ValueError

\* Every registration so far used a name of its own.
DistinctNames == hist.adds = Len(objects) + Len(ui_controls)
\* The messages the step has appended to the transport.
Emitted == SubSeq(outbox', Len(outbox) + 1, Len(outbox'))
RECURSIVE JoinTexts(_)
JoinTexts(segs) == IF segs = <<>> THEN <<>> ELSE <<Head(segs).text>> \o JoinTexts(Tail(segs))

\* C11: after registrations under pairwise distinct names, a full-state request emits,
\* in this order: console_meta with the enabled flag, set_camera with the fixed default
\* (perspective, fov 50, near 0.1, far 1000), one add_geometry per object in
\* registration order, one add_control per control in registration order, and last,
\* only when the buffer is non-empty, the console buffer.
C11_ResyncOrder ==
    [][(hist'.resyncs = hist.resyncs + 1 /\ DistinctNames) =>
        LET nobj == Len(objects)
            nctl == Len(ui_controls)
            ntxt == IF print_buffer = <<>> THEN 0 ELSE 1
        IN /\ Len(Emitted) = 2 + nobj + nctl + ntxt
           /\ Emitted[1].event = "console_meta"
           /\ Emitted[1].key = (IF interactive_console_enabled THEN "enabled" ELSE "disabled")
           /\ Emitted[2].event = "set_camera"
           /\ Emitted[2].segs = <<[projection_mode |-> "perspective", fov |-> 50,
                                   near |-> <<1, 10>>, far |-> 1000]>>
           /\ \A i \in 1..nobj : /\ Emitted[2 + i].event = "add_geometry"
                                 /\ Emitted[2 + i].key = objects[i].name
                                 /\ Emitted[2 + i].rev = objects[i].rev
           /\ \A i, j \in 1..nobj : i < j => objects[i].rev < objects[j].rev
           /\ \A i \in 1..nctl : /\ Emitted[2 + nobj + i].event = "add_control"
                                 /\ Emitted[2 + nobj + i].key = ui_controls[i].name
                                 /\ Emitted[2 + nobj + i].rev = ui_controls[i].rev
           /\ \A i, j \in 1..nctl : i < j => ui_controls[i].rev < ui_controls[j].rev
           /\ ntxt = 1 => /\ Emitted[Len(Emitted)].event = "console_output"
                          /\ JoinTexts(Emitted[Len(Emitted)].segs) = print_buffer]_vars
\* A full-state request was answered for a session holding an object and a control.
C11_Witness ==
    /\ hist.resyncs = 1 /\ DistinctNames /\ Len(objects) = 1 /\ Len(ui_controls) = 1
    /\ Len(outbox) = 6 /\ outbox[Len(outbox)].event = "add_control"
\* A full-state request replayed a non-empty console buffer after an object.
C11_WitnessBuffer ==
    /\ hist.resyncs = 1 /\ Len(objects) = 1 /\ print_buffer # <<>>
    /\ outbox[Len(outbox)].event = "console_output"
    /\ outbox[Len(outbox) - 1].event = "add_geometry"

\* Registration log: every registration emits one add message carrying the entity's
\* registration number (a full-state request only repeats numbers already emitted).
RegNames == Names \cup Range(FreshNames)
AddsOf(event, n) == {i \in 1..Len(outbox) : outbox[i].event = event /\ outbox[i].key = n}
LatestRev(event, n) ==
    IF AddsOf(event, n) = {} THEN 0
    ELSE CHOOSE r \in {outbox[i].rev : i \in AddsOf(event, n)} :
             \A i \in AddsOf(event, n) : outbox[i].rev <= r
Entries(d, n) == {i \in 1..Len(d) : d[i].name = n}
\* Each namespace holds at most one entity per name, the one registered last under it.
NamespaceHoldsLatest(d, event, n) ==
    /\ Cardinality(Entries(d, n)) <= 1
    /\ LatestRev(event, n) > 0 => DictHas(d, n) /\ DictGet(d, n).rev = LatestRev(event, n)
    /\ LatestRev(event, n) = 0 => ~DictHas(d, n)

\* C12 (as stated): get(name) returns the entity of the most recent registration under
\* that name, and each namespace holds at most one entity per name.
C12_GetReturnsMostRecent ==
    \A n \in RegNames :
        /\ NamespaceHoldsLatest(objects, "add_geometry", n)
        /\ NamespaceHoldsLatest(ui_controls, "add_control", n)
        /\ LatestRev("add_geometry", n) > LatestRev("add_control", n)
               => get(n).rev = LatestRev("add_geometry", n)
        /\ LatestRev("add_control", n) > LatestRev("add_geometry", n)
               => get(n).rev = LatestRev("add_control", n)

\* C12 (amended): registering under an existing name of the same namespace replaces the
\* entity; each namespace holds at most one entity per name, the most recent one; and
\* get(name) returns the most recent scene object of that name when there is one,
\* whatever was registered since as a control, and otherwise the most recent control.
C12_GetPrefersObjects ==
    \A n \in RegNames :
        /\ NamespaceHoldsLatest(objects, "add_geometry", n)
        /\ NamespaceHoldsLatest(ui_controls, "add_control", n)
        /\ LatestRev("add_geometry", n) > 0
               => get(n) = DictGet(objects, n) /\ get(n).rev = LatestRev("add_geometry", n)
        /\ (LatestRev("add_geometry", n) = 0 /\ LatestRev("add_control", n) > 0)
               => get(n) = DictGet(ui_controls, n)
                  /\ get(n).rev = LatestRev("add_control", n)
        /\ (LatestRev("add_geometry", n) = 0 /\ LatestRev("add_control", n) = 0)
               => get(n) = NotFound
\* An object was registered twice under one name, then a control under the same name.
C12_Witness ==
    \E n \in Names :
        /\ Cardinality(AddsOf("add_geometry", n)) = 2 /\ hist.resyncs = 0
        /\ LatestRev("add_control", n) > LatestRev("add_geometry", n)
        /\ get(n).rev = LatestRev("add_geometry", n)

RetainedTexts == {print_buffer[i] : i \in 1..Len(print_buffer)}

\* C13: every text streamed to the frontend console, direct print calls such as
\* print_colored included, is also in the retained console buffer.
C13_StreamedTextIsRetained ==
    \A i \in 1..Len(outbox) :
        outbox[i].event = "console_output"
            => \A j \in 1..Len(outbox[i].segs) : outbox[i].segs[j].text \in RetainedTexts

IsPrefix(a, b) == Len(a) <= Len(b) /\ SubSeq(b, 1, Len(a)) = a

\* C14: the console buffer only grows by appending (every earlier content is a prefix
\* of every later one), and a full-state request replays all of it, in order.
C14_BufferAppendOnly ==
    /\ [][IsPrefix(print_buffer, print_buffer')]_vars
    /\ [][(hist'.resyncs = hist.resyncs + 1 /\ print_buffer # <<>>)
            => /\ Emitted[Len(Emitted)].event = "console_output"
               /\ JoinTexts(Emitted[Len(Emitted)].segs) = print_buffer]_vars
\* A full-state request has replayed a buffer of two texts.
C14_Witness ==
    /\ hist.resyncs = 1 /\ Len(print_buffer) = 2 /\ outbox # <<>>
    /\ outbox[Len(outbox)].event = "console_output"
    /\ JoinTexts(outbox[Len(outbox)].segs) = print_buffer

\* One console_output message carrying one segment.
ConsoleOutput(text, color) == Msg("console_output", "", 0, <<Segment(text, color)>>)
\* Worker w takes a step of the command c it is executing, console enabled.
CommandStep(w, c) ==
    /\ interactive_console_enabled /\ th[w].op = "handle_console_command"
    /\ th[w].cmd = c /\ th'[w] # th[w] /\ th[w].pc # "idle"
\* The step of that execution at which eval/exec runs.
RunStep(w, c) == CommandStep(w, c) /\ th[w].pc = "exec_run"
HandlerReturns(w) == th'[w] = IdleFrame /\ console_exec_lock' = NoThread

\* C15: with the console enabled, over the whole execution of a command: "1+1" emits
\* exactly "2\n"; "None" and the statement "x = 5" emit nothing; "x = 5" binds x to 5 in
\* the scope, and "x" run when x is bound to 5 emits exactly "5\n"; an empty or
\* whitespace-only command returns at once, executing and emitting nothing.
C15_CommandResult ==
    [][\A w \in Workers :
        /\ RunStep(w, "1+1") => Emitted = <<ConsoleOutput("2\n", NoColor)>>
        /\ (\E c \in {"None", "x = 5"} : CommandStep(w, c)) => Emitted = <<>>
        /\ RunStep(w, "x = 5") => console_scope'.ns["main"].x = 5
        /\ (RunStep(w, "x") /\ console_scope.ns["main"].x = 5)
              => Emitted = <<ConsoleOutput("5\n", NoColor)>>
        /\ (\E c \in {"1+1", "x"} : CommandStep(w, c) /\ th[w].pc # "exec_run")
              => Emitted = <<>>
        /\ (\E c \in {"", "   "} : CommandStep(w, c))
              => /\ Emitted = <<>> /\ th'[w] = IdleFrame
                 /\ hist'.execs = hist.execs /\ console_scope' = console_scope]_vars
\* "x = 5" and then "x" have run: the only output of the session is "5\n".
C15_Witness ==
    /\ AllWorkersIdle /\ hist.execs = 2 /\ console_scope.ns["main"].x = 5
    /\ outbox = <<ConsoleOutput("5\n", NoColor)>>

Failing == {"1 +", "1/0", "exit()"}
ErrorOf(c) == CASE c = "1 +" -> "SyntaxError" [] c = "1/0" -> "ZeroDivisionError"
                [] c = "exit()" -> "SystemExit"
IsTrace(m, name) ==
    /\ m.event = "console_output" /\ Len(m.segs) = 1 /\ m.segs[1].color = "red"
    /\ \E i \in 1..(Len(m.segs[1].text) - Len(name) + 1) :
          SubSeq(m.segs[1].text, i, i + Len(name) - 1) = name

\* C16: a command that fails (a syntax error in both forms, an exception while running,
\* an exit-style exception) streams exactly one red trace naming the error, and its
\* handler then returns normally with the lock released: nothing else is emitted, the
\* session stays alive, and a following valid command runs as usual.
C16_FailureIsCaught ==
    [][\A w \in Workers : \A c \in Failing :
        /\ RunStep(w, c) => /\ Len(Emitted) = 1 /\ IsTrace(Emitted[1], ErrorOf(c))
                            /\ th'[w].pc = "exec_flush" /\ alive'
        /\ (CommandStep(w, c) /\ th[w].pc # "exec_run") => Emitted = <<>>
        /\ (CommandStep(w, c) /\ th[w].pc = "exec_flush") => HandlerReturns(w) /\ alive'
        /\ (RunStep(w, "1+1") /\ outbox # <<>>)
              => Emitted = <<ConsoleOutput("2\n", NoColor)>>]_vars
\* After "exit()" was caught, "1+1" has run and answered.
C16_Witness ==
    /\ AllWorkersIdle /\ console_exec_lock = NoThread /\ Len(outbox) = 2
    /\ IsTrace(outbox[1], "SystemExit") /\ outbox[2] = ConsoleOutput("2\n", NoColor)

\* Worker w answers the completion request for the text c, console enabled.
CompleteStep(w, c) ==
    /\ interactive_console_enabled /\ th[w].op = "handle_console_complete"
    /\ th[w].cmd = c /\ th[w].pc = "complete_run" /\ th'[w] = IdleFrame
XBound == console_scope.ns["main"].x # 0
NoCompletions == <<ConsoleOutput("(no completions)\n", "yellow")>>

\* C19: the answer to a completion request is the sorted, duplicate-free list of the
\* candidates starting with the prefix, joined by ", ": scope and builtin names for a
\* plain prefix ("pri" gives print; "p" gives pow, print, property; "x" gives x once x
\* is bound), the members of the evaluated object for "expr.prefix" (for an int x: "x."
\* leaves the '__' names out, "x.__a" keeps them, trailing blanks are dropped); an
\* empty list is answered with the yellow "(no completions)" marker.
C19_CompletionList ==
    [][\A w \in Workers :
        /\ CompleteStep(w, "pri") => Emitted = <<ConsoleOutput("print\n", NoColor)>>
        /\ CompleteStep(w, "p") => Emitted = <<ConsoleOutput("pow, print, property\n", NoColor)>>
        /\ CompleteStep(w, "x")
              => Emitted = IF XBound THEN <<ConsoleOutput("x\n", NoColor)>> ELSE NoCompletions
        /\ (CompleteStep(w, "x.") /\ XBound)
              => Emitted = <<ConsoleOutput("bit_length, real\n", NoColor)>>
        /\ (CompleteStep(w, "x.__a") /\ XBound)
              => Emitted = <<ConsoleOutput("__abs__, __add__\n", NoColor)>>
        /\ (CompleteStep(w, "x.b ") /\ XBound)
              => Emitted = <<ConsoleOutput("bit_length\n", NoColor)>>
        /\ (\E c \in {"", "1"} : CompleteStep(w, c)) => Emitted = NoCompletions]_vars
\* "x = 5" has run and the members of x were asked for.
C19_Witness ==
    /\ AllWorkersIdle /\ hist.completes = 1 /\ XBound
    /\ outbox = <<ConsoleOutput("bit_length, real\n", NoColor)>>

NameErrorTrace(msgs) == Len(msgs) = 1 /\ IsTrace(msgs[1], "NameError")
Configured(g, l) == console_scope.globals = g /\ console_scope.locals = l
XIn(n) == console_scope.ns[n].x

\* C17: commands and completions use the configured scope when there is one and the
\* __main__ namespace only when there is none; the namespaces are the application's
\* own mappings, so what the application or an earlier command bound in them is seen
\* by later commands; set_console_scope without a globals mapping changes nothing.
C17_ConfiguredScopeByReference ==
    [][/\ \A w \in Workers :
            /\ (RunStep(w, "x") /\ Configured("user", "user"))
                  => IF XIn("user") # 0 THEN Emitted = <<ConsoleOutput(Repr(XIn("user")) \o "\n", NoColor)>>
                     ELSE NameErrorTrace(Emitted)
            /\ (RunStep(w, "x") /\ Configured("user", "main") /\ XIn("main") # 0)
                  => Emitted = <<ConsoleOutput(Repr(XIn("main")) \o "\n", NoColor)>>
            /\ (RunStep(w, "x") /\ Configured(NoScope, NoScope))
                  => IF XIn("main") # 0 THEN Emitted = <<ConsoleOutput(Repr(XIn("main")) \o "\n", NoColor)>>
                     ELSE NameErrorTrace(Emitted)
            /\ (RunStep(w, "x = 5") /\ Configured("user", "user"))
                  => console_scope'.ns["user"].x = 5 /\ console_scope'.ns["main"] = console_scope.ns["main"]
            /\ (CompleteStep(w, "x") /\ Configured("user", "user"))
                  => Emitted = IF XIn("user") # 0 THEN <<ConsoleOutput("x\n", NoColor)>>
                               ELSE NoCompletions
       /\ \A t \in AppThreads, l \in {NoScope, "main"} :
            set_console_scope(t, NoScope, l) => console_scope' = console_scope
       /\ console_scope'.globals = NoScope => console_scope.globals = NoScope]_vars
\* The application configured its own mapping, bound x = 7 in it afterwards, and the
\* command "x" then answered 7.
C17_Witness ==
    /\ AllWorkersIdle /\ Configured("user", "user") /\ XIn("user") = 7 /\ XIn("main") = 0
    /\ outbox = <<ConsoleOutput("7\n", NoColor)>> /\ hist.execs = 1

Occurs(msgs, text) ==
    Cardinality({i \in 1..Len(msgs) : \E k \in 1..Len(msgs[i].segs) : msgs[i].segs[k].text = text})

\* C18: what a command writes to stdout ("1\n" by print(1)) or to stderr ("e\n") is
\* emitted exactly once over the command's execution: by the flush at its end when the
\* executor redirected the streams, by the mirror while it runs when it did not.
C18_StreamTextReachesConsoleOnce ==
    [][\A w \in Workers :
        /\ CommandStep(w, "print(1)")
              => Occurs(Emitted, "1\n") = IF th[w].pc = (IF th[w].capture THEN "exec_flush" ELSE "exec_run")
                                           THEN 1 ELSE 0
        /\ CommandStep(w, "print('e', file=sys.stderr)")
              => Occurs(Emitted, "e\n") = IF th[w].pc = (IF th[w].capture THEN "exec_flush" ELSE "exec_run")
                                           THEN 1 ELSE 0]_vars

UnknownMaterial == [type |-> "unknown", form |-> "dict"]

\* C20: an update_object whose updates are {material: a dict with an undecodable type
\* tag, visible: False} for a registered object of this viewer does not raise: the
\* object's material becomes the raw dict, one warning is printed, visible is still
\* set, the update_object event is triggered, and the handler returns.
C20_UndecodableMaterialKeepsRawDict ==
    [][\A w \in Workers, o \in Names :
        (handle_update_object(w, SelfId, o, 3) /\ DictHas(objects, o))
            => /\ DictGet(objects', o).material = UnknownMaterial
               /\ DictGet(objects', o).visible = FALSE
               /\ hist'.printed = hist.printed + 1
               /\ triggered' = Append(triggered, Event("update_object", o,
                                                       [v |-> 3, form |-> "updates"]))
               /\ th'[w] = IdleFrame /\ alive']_vars
\* An object holds the raw dict as its material after such an update.
C20_Witness ==
    /\ hist.printed = 1 /\ triggered # <<>>
    /\ \E i \in 1..Len(objects) :
          objects[i].material = UnknownMaterial /\ objects[i].visible = FALSE

UpdateKeys(u) == {UpdatesOf(u)[i][1] : i \in 1..Len(UpdatesOf(u))}
UpdateValue(u, key) ==
    LET i == CHOOSE i \in 1..Len(UpdatesOf(u)) : UpdatesOf(u)[i][1] = key IN UpdatesOf(u)[i][2]
OthersUnchanged(o) ==
    /\ Len(objects') = Len(objects) /\ ui_controls' = ui_controls
    /\ \A i \in 1..Len(objects) : objects[i].name # o => objects'[i] = objects[i]

\* C21: an update_object for an existing object of this viewer changes exactly the
\* fields that are keys of the updates and fields of the object: it creates no field,
\* leaves the fields not named alone (visible and position take the sent value, the
\* position as an array), changes no other object and no control, and triggers
\* update_object; for an id that names no object nothing changes and nothing is triggered.
C21_UpdateSetsNamedFieldsOnly ==
    [][\A w \in Workers, o \in Names, u \in UpdateIds :
        handle_update_object(w, SelfId, o, u)
            => IF DictHas(objects, o)
               THEN /\ DOMAIN DictGet(objects', o) = DOMAIN DictGet(objects, o)
                    /\ \A f \in DOMAIN DictGet(objects, o) :
                          IF f \in UpdateKeys(u) \cap ObjectFields
                          THEN CASE f = "material" -> TRUE
                                 [] f = "position" -> DictGet(objects', o)[f] = as_array(UpdateValue(u, f))
                                 [] OTHER -> DictGet(objects', o)[f] = UpdateValue(u, f)
                          ELSE DictGet(objects', o)[f] = DictGet(objects, o)[f]
                    /\ OthersUnchanged(o)
                    /\ Len(triggered') = Len(triggered) + 1
                    /\ triggered'[Len(triggered')].event = "update_object"
               ELSE objects' = objects /\ ui_controls' = ui_controls /\ triggered' = triggered]_vars
\* Of two objects one took a position update and kept its visibility; the other is as
\* it was registered.
C21_Witness ==
    /\ Len(objects) = 2 /\ triggered # <<>>
    /\ objects[1].position = [v |-> 1, form |-> "array"] /\ objects[1].visible
    /\ objects[2].position = Origin /\ objects[2].material = NoMaterial

\* C22: the number of client_heartbeat replies emitted equals the number of heartbeats
\* addressed to this viewer that were handled, every reply carries this viewer's id,
\* the reply is emitted by the step that handles the heartbeat, and no other step
\* emits one.
C22_OneReplyPerHeartbeat ==
    /\ [](/\ CountEvent("client_heartbeat") = hist.heartbeats
          /\ \A i \in 1..Len(outbox) :
                outbox[i].event = "client_heartbeat" => outbox[i].key = SelfId)
    /\ [][\A w \in Workers, vid \in ViewerIds :
            handle_heartbeat(w, vid)
                => Emitted = IF vid = SelfId
                             THEN <<Msg("client_heartbeat", SelfId, 0, <<>>)>> ELSE <<>>]_vars
    /\ [][hist'.heartbeats = hist.heartbeats
            => \A i \in 1..Len(Emitted) : Emitted[i].event # "client_heartbeat"]_vars
\* Two heartbeats of this viewer and one of another were handled: two replies.
C22_Witness ==
    /\ hist.heartbeats = 2 /\ hist.dropped = 1 /\ CountEvent("client_heartbeat") = 2

Announced(event, entity) ==
    \E i \in 1..Len(outbox) : outbox[i] = Msg(event, entity.name, entity.rev, <<>>)

\* C23: a registration call stores the entity under its name and emits exactly one add
\* message, for that entity, in the same call; so every entity found in a registry has
\* been announced by an add message carrying it, and the adds sent are as many as
\* the registration calls made.
C23_RegistrationEmitsAdd ==
    /\ [](/\ \A i \in 1..Len(objects) : Announced("add_geometry", objects[i])
          /\ \A i \in 1..Len(ui_controls) :
                \E k \in 1..Len(outbox) :
                    /\ outbox[k].event = "add_control"
                    /\ outbox[k].key = ui_controls[i].name /\ outbox[k].rev = ui_controls[i].rev
          /\ CountEvent("add_geometry") + CountEvent("add_control") >= hist.adds)
    /\ [][hist'.adds = hist.adds + 1
            => /\ Len(Emitted) = 1 /\ Emitted[1].rev = hist'.adds
               /\ \/ /\ Emitted[1].event = "add_geometry" /\ ui_controls' = ui_controls
                     /\ DictHas(objects', Emitted[1].key)
                     /\ DictGet(objects', Emitted[1].key).rev = Emitted[1].rev
                  \/ /\ Emitted[1].event = "add_control" /\ objects' = objects
                     /\ DictHas(ui_controls', Emitted[1].key)
                     /\ DictGet(ui_controls', Emitted[1].key).rev = Emitted[1].rev]_vars
\* A mesh was registered twice under one name and a control once: three adds went out.
C23_Witness ==
    /\ hist.adds = 3 /\ Len(objects) = 1 /\ objects[1].rev = 2 /\ Len(ui_controls) = 1
    /\ CountEvent("add_geometry") = 2 /\ CountEvent("add_control") = 1

ObjectsNamed(n) == {objects[i] : i \in {k \in 1..Len(objects) : objects[k].name = n}}
ControlsNamed(n) == {ui_controls[i] : i \in {k \in 1..Len(ui_controls) : ui_controls[k].name = n}}

\* C24: get(name) is the scene object of that name whenever there is one, whichever of
\* the object and a control of the same name was registered first; it is the control
\* only when no object has the name, and nothing when neither registry has it.
C24_GetObjectsFirst ==
    \A n \in Names :
        IF ObjectsNamed(n) # {} THEN get(n) \in ObjectsNamed(n)
        ELSE IF ControlsNamed(n) # {} THEN get(n) \in ControlsNamed(n)
        ELSE get(n) = NotFound
\* Name "a": a control, then a mesh (returned); name "b": only a control (returned).
C24_Witness ==
    /\ ControlsNamed("a") # {} /\ ObjectsNamed("a") # {} /\ ControlsNamed("b") # {}
    /\ \E c \in ControlsNamed("a") : c.rev < get("a").rev
    /\ get("b") \in ControlsNamed("b") /\ ObjectsNamed("b") = {}

PullsOnTransport(w) == w \in Workers /\ th[w].op = "camera"

\* C25: a pull call made on the thread that delivers the inbound messages is never
\* fulfilled: while it waits no answer is handled and the signal stays clear, it never
\* gets to read the slot, and what it returns is the no-data sentinel of the timeout.
C25_PullOnTransportThreadTimesOut ==
    /\ [](\A w \in Workers :
            PullsOnTransport(w) => /\ th[w].pc # "read"
                                   /\ th[w].pc = "done" => th[w].ret = None
                                   /\ th[w].pc = "wait" => ~request_threads["camera_info"])
    /\ [][\A w \in Workers :
            (PullsOnTransport(w) /\ th[w].pc = "wait")
                => /\ hist'.responses = hist.responses
                   /\ th'[w].pc \in {"wait", "done"}]_vars
\* The handler's camera() call has sent its request and come back with None.
C25_Witness ==
    \E w \in Workers :
        /\ PullsOnTransport(w) /\ th[w].pc = "done" /\ th[w].ret = None
        /\ hist.emits["camera_info"] = 1

\* C26: a finished screenshot() call has returned a pixel array (4 channels for no
\* filename, a name without extension or .png; 3 for .jpg/.jpeg), or None, or has
\* raised ValueError, the last only for an unsupported extension.
C26_ScreenshotResult ==
    \A t \in AppThreads :
        (th[t].op = "screenshot" /\ th[t].pc = "done")
            => /\ th[t].ret \in {None, ValueError, Pixels(3), Pixels(4)}
               /\ th[t].ret = ValueError => th[t].fname = "shot.gif"
               /\ th[t].ret = Pixels(4) => th[t].fname \in {NoFile, "shot", "shot.png"}
               /\ th[t].ret = Pixels(3) => th[t].fname \in {"shot.jpg", "shot.JPEG"}

\* C27: whenever the completion signal of a kind is set, the kind's slot holds a payload
\* stored by handle_state_request; for the kinds whose answers are never None
\* (selected_object, screenshot) the slot is then not the cleared value None.
C27_SignalImpliesStoredPayload ==
    \A k \in {"selected_object", "screenshot"} :
        request_threads[k] => request_data[k] \in ResponseDataOf(k)

\* C28: the console lock is held only by a thread that is inside the locked block of a
\* command or a completion, so it is free whenever no request is in there, whichever
\* way the last one left (result, exception in user code, failing completion target,
\* emit that raised); and every console request that was delivered finishes.
C28_LockReleasedOnEveryPath ==
    /\ [](\A w \in Workers : console_exec_lock = w => InConsoleWork(w))
    /\ []((\A w \in Workers : ~InConsoleWork(w)) => console_exec_lock = NoThread)
    /\ \A w \in Workers : (th[w].pc # "idle") ~> (th[w].pc = "idle")
\* A completion handler was left by an exception of the emit, a command is waiting for
\* the lock, and the lock is free.
C28_Witness ==
    \E w, v \in Workers :
        /\ th[w].op = "handle_console_complete" /\ th[w].pc = "done"
        /\ th[w].ret = ConnectionError
        /\ th[v].pc = "exec_lock" /\ console_exec_lock = NoThread

\* C29: handling a full-state request leaves the object and control registries, the
\* console buffer, the request slots and the console scope as they were, and what it
\* emits is a function of that state: a second request right after it emits the same
\* message sequence.
C29_ResyncReadOnly ==
    [][hist'.resyncs = hist.resyncs + 1 =>
        /\ UNCHANGED <<objects, ui_controls, print_buffer, request_threads, request_data,
                       console_scope>>
        /\ Emitted = ResyncMessages
        /\ ResyncMessages' = ResyncMessages]_vars
\* Two full-state requests in a row after a command whose result is in the buffer: the
\* transport holds the command's output and then the same sequence twice.
C29_Witness ==
    /\ hist.resyncs = 2 /\ print_buffer # <<>> /\ Len(outbox) = 1 + 2 * Len(ResyncMessages)
    /\ SubSeq(outbox, 2, 1 + Len(ResyncMessages)) = ResyncMessages
    /\ SubSeq(outbox, 2 + Len(ResyncMessages), Len(outbox)) = ResyncMessages

\* The number of the first registration under name n in the namespace of `event`.
FirstRev(event, n) ==
    CHOOSE r \in {outbox[i].rev : i \in AddsOf(event, n)} :
        \A i \in AddsOf(event, n) : r <= outbox[i].rev
\* The positions, in the messages of this step, of the adds of one namespace.
EmittedAdds(event) == {i \in 1..Len(Emitted) : Emitted[i].event = event}
ReplaysNamespace(event) ==
    /\ \A n \in Names :
          LET adds == {i \in EmittedAdds(event) : Emitted[i].key = n}
          IN /\ Cardinality(adds) = (IF LatestRev(event, n) > 0 THEN 1 ELSE 0)
             /\ \A i \in adds : Emitted[i].rev = LatestRev(event, n)
    /\ \A i, j \in EmittedAdds(event) :
          i < j => FirstRev(event, Emitted[i].key) < FirstRev(event, Emitted[j].key)

\* C30: whatever names were re-registered, a full-state request emits one add per
\* distinct name of each namespace, carrying the entity registered last under that
\* name, and the adds of a namespace follow the order in which the names were first
\* registered.
C30_ReRegistrationKeepsOrder ==
    [][hist'.resyncs = hist.resyncs + 1 =>
        ReplaysNamespace("add_geometry") /\ ReplaysNamespace("add_control")]_vars
\* Objects a, b, then a again: the full-state request sends the third registration
\* first, under a, and then b.
C30_Witness ==
    /\ hist.resyncs = 1 /\ hist.adds = 3 /\ Len(outbox) = 7
    /\ outbox[6] = Msg("add_geometry", "a", 3, <<>>)
    /\ outbox[7] = Msg("add_geometry", "b", 2, <<>>)

\* What a capturing execution of command c sends, in order, and the texts it retains.
FirstText(c) ==
    IF Sem(c).raises # "" THEN Traceback(Sem(c).raises)
    ELSE IF Sem(c).value # "" THEN Sem(c).value \o "\n" ELSE ""
OrderedOutput(c) ==
    (IF FirstText(c) = "" THEN <<>>
     ELSE <<ConsoleOutput(FirstText(c), IF Sem(c).raises # "" THEN "red" ELSE NoColor)>>)
    \o [i \in 1..Len(Sem(c).out) |-> ConsoleOutput(Sem(c).out[i], NoColor)]
    \o [i \in 1..Len(Sem(c).err) |-> ConsoleOutput(Sem(c).err[i], "red")]
OrderedTexts(c) ==
    (IF FirstText(c) = "" THEN <<>> ELSE <<FirstText(c)>>) \o Sem(c).out \o Sem(c).err
EndsWith(seq, tail) ==
    Len(tail) <= Len(seq) /\ SubSeq(seq, Len(seq) - Len(tail) + 1, Len(seq)) = tail

\* C31: a command executed with output capture sends, and retains, first its result (or
\* its red trace), then what it wrote to stdout, then what it wrote to stderr in red,
\* whatever the order in which it printed and produced the value or raised; every one
\* of these is emitted by the thread holding the console lock, so when the command ends
\* its output is one uninterrupted run at the end of the transport and of the buffer.
C31_CapturedOutputOrder ==
    [][\A w \in Workers, c \in OrderCommands :
        /\ (CommandStep(w, c) /\ th[w].capture /\ Emitted # <<>>)
              => console_exec_lock = w
        /\ (RunStep(w, c) /\ th[w].capture)
              => /\ console_exec_lock' = w
                 /\ Emitted = SubSeq(OrderedOutput(c), 1, IF FirstText(c) = "" THEN 0 ELSE 1)
        /\ (CommandStep(w, c) /\ th[w].capture /\ th[w].pc = "exec_flush")
              => /\ EndsWith(outbox', OrderedOutput(c))
                 /\ EndsWith(print_buffer', OrderedTexts(c))
                 /\ Len(Emitted) = Len(Sem(c).out) + Len(Sem(c).err)]_vars
\* Two workers ran the command that writes to stderr, then to stdout, then yields 7,
\* one waiting for the other: the transport holds value, stdout, red stderr, twice.
C31_Witness ==
    LET c == "print('e', file=sys.stderr) or print(1) or 7"
    IN /\ hist.execs = 2 /\ AllWorkersIdle
       /\ outbox = OrderedOutput(c) \o OrderedOutput(c)
       /\ outbox[1].segs[1].text = "7\n" /\ outbox[3].segs[1].color = "red"

\* The events and callbacks the step has run, in order.
Ran == SubSeq(triggered', Len(triggered) + 1, Len(triggered'))

\* C32: a ui_event_response addressed to the session runs the callback of the target
\* control, when a control of that id is registered, and after it triggers `control`;
\* `control` is triggered exactly once per message, with the id and the converted value,
\* also when no such control exists, and then no callback runs and no control changes.
C32_CallbackThenControlEvent ==
    [][\A w \in Workers, c \in Names, v \in EventData :
        handle_ui_event_from_server(w, SelfId, c, v) =>
            /\ Cardinality({i \in 1..Len(Ran) : Ran[i].event = "control"}) = 1
            /\ Ran[Len(Ran)] = Event("control", c, as_array(v))
            /\ DictHas(ui_controls, c) =>
                  /\ Ran = <<Event("callback", c, as_array(v)), Event("control", c, as_array(v))>>
                  /\ DictGet(ui_controls', c).calls = DictGet(ui_controls, c).calls + 1
            /\ ~DictHas(ui_controls, c) =>
                  /\ Ran = <<Event("control", c, as_array(v))>>
                  /\ ui_controls' = ui_controls]_vars
\* With control a registered and b not, an event for b and then one for a were handled:
\* `control` alone for b, then a's callback and `control` for a.
C32_Witness ==
    /\ Len(triggered) = 3 /\ DictHas(ui_controls, "a") /\ ~DictHas(ui_controls, "b")
    /\ triggered[1].event = "control" /\ triggered[1].key = "b"
    /\ triggered[2].event = "callback" /\ triggered[2].key = "a"
    /\ triggered[3].event = "control" /\ triggered[3].key = "a"
    /\ DictGet(ui_controls, "a").calls = 1

\* A call of `op` by thread t has returned.
PlotReturned(t, op) == th[t].pc = "done" /\ th[t].op = op
\* result is the smallest multiple of base that is >= val.
SmallestMultipleAtLeast(result, val, base) ==
    /\ divmod(result, base).r = 0
    /\ ~less(result, val)
    /\ less(result, plus(val, base))

\* C33: nice_ceil(val, base), for positive integers val and base, returns the smallest
\* multiple of base that is >= val, and base for val <= 0; the upper end of the
\* histogram's y axis, nice_ceil(maxcount, 5) + 1, is greater than maxcount.
C33_NiceCeilRoundsUp ==
    \A t \in AppThreads :
        /\ PlotReturned(t, "nice_ceil") =>
              IF positive(th[t].arg.val)
              THEN SmallestMultipleAtLeast(th[t].ret.limbs, th[t].arg.val, th[t].arg.base)
              ELSE th[t].ret.limbs = int(th[t].arg.base)
        /\ PlotReturned(t, "create_histogram") => less(th[t].arg.val, th[t].ret.limbs)
\* The same, for integers below 2^52: there every quotient by one of the model's bases
\* is a float or lies well inside a gap between two floats.
C33_RoundsUpBelowFloatLimit ==
    \A t \in AppThreads :
        /\ (PlotReturned(t, "nice_ceil") /\ bit_length(th[t].arg.val) <= 52) =>
              IF positive(th[t].arg.val)
              THEN SmallestMultipleAtLeast(th[t].ret.limbs, th[t].arg.val, th[t].arg.base)
              ELSE th[t].ret.limbs = int(th[t].arg.base)
        /\ PlotReturned(t, "create_histogram") => less(th[t].arg.val, th[t].ret.limbs)
\* nice_ceil(2^53 + 1, 1) has returned 2^53, which is less than its argument.
C33_ReturnsLessThanArgument ==
    \E t \in AppThreads :
        /\ PlotReturned(t, "nice_ceil") /\ th[t].arg.val = <<4 * 2^11, 0, 1>>
        /\ th[t].arg.base = 1 /\ th[t].ret.limbs = <<4 * 2^11, 0, 0>>

====
